---- MODULE Spec2Model ----
(***************************************************************************)
(* Model of mutility/coverpkg: the coverage engine of internal/coverage    *)
(* (profile parser, path taxonomy, rollups, Diff, Report/ReportMD).        *)
(*                                                                         *)
(* Strings are sequences of one-character strings, so that the code's      *)
(* string operations (LastIndexByte, Split, Join, Fields, HasPrefix,       *)
(* TrimSuffix, Atoi) are computed the way the Go code computes them.       *)
(* Indexes returned by the string operators are Go's 0-based indexes.      *)
(*                                                                         *)
(* A Go panic (slice bounds out of range) is the value Panic for a string  *)
(* and the field panic = TRUE for a view.                                  *)
(*                                                                         *)
(* The diag.Context passed to the parser is context.Background() in every  *)
(* caller (cmd/coverpkg/main.go:50, cmd/coverpkg-gha main: GitHubContext)  *)
(* and in the tests, so ctx.Err() is nil throughout.                       *)
(***************************************************************************)
EXTENDS Integers, Sequences, FiniteSets

(***************************************************************************)
(* Bounds                                                                  *)
(***************************************************************************)
\* number of lines of the profile read by the single-snapshot commands
MaxLines == 2

\* number of lines of each of the two profiles of the diff commands
MaxDiffLines == 2

(***************************************************************************)
(* Go string primitives                                                    *)
(***************************************************************************)
Panic == <<"panic">>

Max(S) == CHOOSE x \in S : \A y \in S : y <= x

Min(S) == CHOOSE x \in S : \A y \in S : x <= y

\* strings.LastIndexByte: 0-based index of the last c in s, -1 if none
LastIndexByte(s, c) ==
  LET I == {i \in 1..Len(s) : s[i] = c}
  IN IF I = {} THEN -1 ELSE Max(I) - 1

\* s[:n]; panics when n is out of range
SliceTo(s, n) == IF n < 0 \/ n > Len(s) THEN Panic ELSE SubSeq(s, 1, n)

\* s[n:]; panics when n is out of range
SliceFrom(s, n) == IF n < 0 \/ n > Len(s) THEN Panic ELSE SubSeq(s, n + 1, Len(s))

HasPrefix(s, p) == Len(s) >= Len(p) /\ SubSeq(s, 1, Len(p)) = p

HasSuffix(s, p) == Len(s) >= Len(p) /\ SubSeq(s, Len(s) - Len(p) + 1, Len(s)) = p

Contains(s, p) == \E i \in 0..(Len(s) - Len(p)) : SubSeq(s, i + 1, i + Len(p)) = p

TrimSuffix(s, p) == IF HasSuffix(s, p) THEN SubSeq(s, 1, Len(s) - Len(p)) ELSE s

\* strings.Split(s, sep) for a one-character separator: Split("") = [""]
RECURSIVE Split(_, _)
Split(s, sep) ==
  LET I == {i \in 1..Len(s) : s[i] = sep}
  IN IF I = {} THEN <<s>>
     ELSE LET i == Min(I)
          IN <<SubSeq(s, 1, i - 1)>> \o Split(SubSeq(s, i + 1, Len(s)), sep)

\* strings.Join(parts, sep) for a one-character separator
RECURSIVE Join(_, _)
Join(parts, sep) ==
  IF Len(parts) = 0 THEN <<>>
  ELSE IF Len(parts) = 1 THEN parts[1]
  ELSE parts[1] \o <<sep>> \o Join(Tail(parts), sep)

WhiteSpace == {" ", "\t"}

\* strings.Fields: the maximal runs of non-space characters
RECURSIVE Fields(_)
Fields(s) ==
  IF s = <<>> THEN <<>>
  ELSE IF s[1] \in WhiteSpace THEN Fields(Tail(s))
  ELSE LET E == {i \in 1..Len(s) : s[i] \in WhiteSpace}
           e == IF E = {} THEN Len(s) + 1 ELSE Min(E)
       IN <<SubSeq(s, 1, e - 1)>> \o Fields(SubSeq(s, e, Len(s)))

Digits == {"0", "1", "2", "3", "4", "5", "6", "7", "8", "9"}

DigitVal(c) ==
  CASE c = "0" -> 0 [] c = "1" -> 1 [] c = "2" -> 2 [] c = "3" -> 3
    [] c = "4" -> 4 [] c = "5" -> 5 [] c = "6" -> 6 [] c = "7" -> 7
    [] c = "8" -> 8 [] c = "9" -> 9

RECURSIVE DecVal(_)
DecVal(s) == IF s = <<>> THEN 0 ELSE 10 * DecVal(SubSeq(s, 1, Len(s) - 1)) + DigitVal(s[Len(s)])

\* strconv.Atoi: optional sign, then one or more decimal digits.  The
\* out-of-range error of Atoi needs 19 digits and is beyond the fields of
\* LineSet.
Atoi(s) ==
  LET signed == s # <<>> /\ s[1] \in {"+", "-"}
      d      == IF signed THEN Tail(s) ELSE s
  IN IF d = <<>> \/ \E i \in 1..Len(d) : d[i] \notin Digits
     THEN [ok |-> FALSE, val |-> 0]
     ELSE [ok |-> TRUE,
           val |-> IF signed /\ s[1] = "-" THEN 0 - DecVal(d) ELSE DecVal(d)]

(***************************************************************************)
(* Inputs: profile lines and test options                                  *)
(***************************************************************************)
\* <path>:<pos> <numStatements> <hitCount>
Line3(f0, f1, f2) == f0 \o <<" ">> \o f1 \o <<" ">> \o f2

\* "mode: set 1": a header with three fields
ModeLine == <<"m", "o", "d", "e", ":", " ", "s", "e", "t", " ", "1">>

Gen == <<"g", "e", "n">>

\* a/b/c/d/f:1, a/b/c/d/e/f:1, a/b/c/g:1, a/b/c/g:2, f:1, a/f:1, gen/f:1
FileD == <<"a", "/", "b", "/", "c", "/", "d", "/", "f", ":", "1">>

FileE == <<"a", "/", "b", "/", "c", "/", "d", "/", "e", "/", "f", ":", "1">>

FileC1 == <<"a", "/", "b", "/", "c", "/", "g", ":", "1">>

FileC2 == <<"a", "/", "b", "/", "c", "/", "g", ":", "2">>

FileTop == <<"f", ":", "1">>

FileA == <<"a", "/", "f", ":", "1">>

FileGen == <<"g", "e", "n", "/", "f", ":", "1">>

\* a//f:1: a doubled separator, the package path is "a/"
FileSlash == <<"a", "/", "/", "f", ":", "1">>

\* a/f: a first field without position
NoPos == <<"a", "/", "f">>

\* a/gen: a first field whose last segment is the excluded token
EndGen == <<"a", "/", "g", "e", "n">>

\* the lines of the profiles of the diff commands: well-formed statements
DiffLineSet ==
  { Line3(FileD, <<"2">>, <<"1">>),
    Line3(FileD, <<"2">>, <<"0">>),
    Line3(FileE, <<"1">>, <<"1">>),
    Line3(FileC1, <<"1">>, <<"0">>),
    Line3(FileC2, <<"0">>, <<"1">>),
    Line3(FileTop, <<"1">>, <<"1">>),
    Line3(FileSlash, <<"1">>, <<"1">>) }

\* the lines of the profile of the single-snapshot commands
LineSet ==
  DiffLineSet \cup
  { ModeLine,
    Line3(FileD, <<"3">>, <<"0">>),
    Line3(FileA, <<"-", "1">>, <<"1">>),
    Line3(FileC1, <<"x">>, <<"1">>),
    Line3(FileGen, <<"x">>, <<"1">>),
    <<"a", "/", "b", " ", "1">>,
    Line3(NoPos, <<"1">>, <<"1">>),
    Line3(EndGen, <<"1">>, <<"1">>) }

RECURSIVE SeqsUpTo(_, _)
SeqsUpTo(S, n) ==
  IF n = 0 THEN {<<>>}
  ELSE LET R == SeqsUpTo(S, n - 1)
       IN R \cup {Append(r, x) : r \in {q \in R : Len(q) = n - 1}, x \in S}

Profiles == SeqsUpTo(LineSet, MaxLines)

DiffProfiles == SeqsUpTo(DiffLineSet, MaxDiffLines)

\* *TestOptions: nil, or the Excludes list (action.yml default 'gen')
NilOptions == [isNil |-> TRUE, Excludes |-> <<>>]

GenOptions == [isNil |-> FALSE, Excludes |-> <<Gen>>]

OptionSet == {NilOptions, GenOptions}

(***************************************************************************)
(* Profile parser                                                          *)
(***************************************************************************)
excludes(o, path) ==
  IF o.isNil THEN FALSE
  ELSE \E i \in 1..Len(o.Excludes) :
         \/ HasPrefix(path, o.Excludes[i] \o <<"/">>)
         \/ Contains(path, <<"/">> \o o.Excludes[i] \o <<"/">>)

\* StatementData: a function from stmt{filepos, count} to the covered flag
EmptyMap == [k \in {} |-> FALSE]

Get(m, k) == IF k \in DOMAIN m THEN m[k] ELSE FALSE

Put(m, k, v) == [x \in (DOMAIN m) \cup {k} |-> IF x = k THEN v ELSE m[x]]

\* scanLine parsing the count before it looks at the exclusions
scanLine_CountFirst(st, line, o) ==
  IF HasPrefix(line, <<"m", "o", "d", "e", ":">>)
  THEN [branch |-> "mode", stmts |-> st, isNil |-> FALSE, err |-> FALSE]
  ELSE LET f == Fields(line)
       IN IF Len(f) # 3
          THEN [branch |-> "invalid", stmts |-> st, isNil |-> FALSE, err |-> FALSE]
          ELSE LET ct == Atoi(f[2])
               IN IF ~ct.ok
                  THEN [branch |-> "badcount", stmts |-> EmptyMap, isNil |-> TRUE, err |-> TRUE]
                  ELSE IF excludes(o, f[1])
                  THEN [branch |-> "excluded", stmts |-> st, isNil |-> FALSE, err |-> FALSE]
                  ELSE LET loc == [filepos |-> f[1], count |-> ct.val]
                           cov == f[3] # <<"0">>
                       IN [branch |-> "stored",
                           stmts |-> Put(st, loc, cov \/ Get(st, loc)),
                           isNil |-> FALSE, err |-> FALSE]

\* the body of the loop of scanStatements for one line
scanLine(st, line, o) ==
  IF HasPrefix(line, <<"m", "o", "d", "e", ":">>)
  THEN [branch |-> "mode", stmts |-> st, isNil |-> FALSE, err |-> FALSE]
  ELSE LET f == Fields(line)
       IN IF Len(f) # 3
          THEN [branch |-> "invalid", stmts |-> st, isNil |-> FALSE, err |-> FALSE]
          ELSE IF excludes(o, f[1])
          THEN [branch |-> "excluded", stmts |-> st, isNil |-> FALSE, err |-> FALSE]
          ELSE LET ct == Atoi(f[2])
               IN IF ~ct.ok
                  THEN [branch |-> "badcount", stmts |-> EmptyMap, isNil |-> TRUE, err |-> TRUE]
                  ELSE LET loc == [filepos |-> f[1], count |-> ct.val]
                           cov == f[3] # <<"0">>
                       IN [branch |-> "stored",
                           stmts |-> Put(st, loc, cov \/ Get(st, loc)),
                           isNil |-> FALSE, err |-> FALSE]

\* scanStatements / ReadProfile as a function of the whole input
RECURSIVE scanFrom(_, _, _)
scanFrom(st, lines, o) ==
  IF lines = <<>> THEN [stmts |-> st, isNil |-> FALSE, err |-> FALSE]
  ELSE LET r == scanLine(st, Head(lines), o)
       IN IF r.err THEN [stmts |-> r.stmts, isNil |-> r.isNil, err |-> TRUE]
          ELSE scanFrom(r.stmts, Tail(lines), o)

ReadProfile(lines, o) == scanFrom(EmptyMap, lines, o)

(***************************************************************************)
(* Path taxonomy                                                           *)
(***************************************************************************)
\* stmt.loc: (path, pos) around the last ':'
loc(k) ==
  LET n == LastIndexByte(k.filepos, ":")
  IN [path |-> SliceTo(k.filepos, n), pos |-> SliceFrom(k.filepos, n + 1)]

\* stmt.file
file(k) == SliceTo(k.filepos, LastIndexByte(k.filepos, ":"))

\* stmt.pkg
pkg(k) ==
  LET n == LastIndexByte(k.filepos, ":")
      f == SliceTo(k.filepos, n)
  IN IF f = Panic THEN Panic
     ELSE SliceTo(k.filepos, LastIndexByte(f, "/"))

\* stmt.covered
covered(k, cov) == IF cov THEN k.count ELSE 0

\* nth: 0-based index of the n-th r in s, -1 if there are fewer
nth(s, r, n) ==
  LET I == {i \in 1..Len(s) : s[i] = r /\ Cardinality({j \in 1..i : s[j] = r}) = n}
  IN IF I = {} THEN -1 ELSE Min(I) - 1

pathroot(path) ==
  LET parts == Split(path, "/")
  IN Join(IF Len(parts) > 4 THEN SubSeq(parts, 1, 4) ELSE parts, "/")

pathpkg(path) ==
  LET n == LastIndexByte(path, "/")
  IN IF n < 0 THEN path ELSE SliceTo(path, n)

pathmod(path) ==
  LET n == nth(path, "/", 2)
  IN IF n < 0 THEN path ELSE SliceTo(path, n)

\* stmt.mod
mod(k) == pathmod(k.filepos)

(***************************************************************************)
(* Views.  A view is [grp, panic, delta, data]: grp is Grouping()         *)
(* ("Statement" for a StatementData, which has no Grouping method), data   *)
(* the Go map, delta = TRUE for the PathDelta types (the ChangeDetailers)  *)
(* and panic = TRUE when building it panicked.  An entry [k, path, count,  *)
(* covered] is one call of the callback of an Each* method; k is the map   *)
(* key the call comes from.                                                *)
(***************************************************************************)
NoData == [k \in {} |-> [Count |-> 0, Covered |-> 0]]

PanicView == [grp |-> "", panic |-> TRUE, delta |-> FALSE, data |-> NoData]

StatementView(st) == [grp |-> "Statement", panic |-> FALSE, delta |-> FALSE, data |-> st]

Entry(k, path, count, cov) == [k |-> k, path |-> path, count |-> count, covered |-> cov]

\* StatementData.EachStatement
EachStatement(v) ==
  {Entry(k, loc(k).path, k.count, covered(k, v.data[k])) : k \in DOMAIN v.data}

\* StatementData.EachFile, FileData.EachFile
EachFile(v) ==
  IF v.grp = "Statement"
  THEN {Entry(k, file(k), k.count, covered(k, v.data[k])) : k \in DOMAIN v.data}
  ELSE {Entry(k, k, v.data[k].Count, v.data[k].Covered) : k \in DOMAIN v.data}

\* StatementData.EachPackage, FileData.EachPackage, PathData.EachPackage
EachPackage(v) ==
  IF v.grp = "Statement"
  THEN {Entry(k, pkg(k), k.count, covered(k, v.data[k])) : k \in DOMAIN v.data}
  ELSE IF v.grp = "File"
  THEN {Entry(k, pathpkg(k), v.data[k].Count, v.data[k].Covered) : k \in DOMAIN v.data}
  ELSE {Entry(k, k, v.data[k].Count, v.data[k].Covered) : k \in DOMAIN v.data}

\* StatementData.EachModule, FileData.EachModule, PathData.EachModule
EachModule(v) ==
  IF v.grp = "Statement"
  THEN {Entry(k, mod(k), k.count, covered(k, v.data[k])) : k \in DOMAIN v.data}
  ELSE {Entry(k, pathmod(k), v.data[k].Count, v.data[k].Covered) : k \in DOMAIN v.data}

\* FileData.EachPath, PathData.EachPath
EachPath(v) == IF v.grp = "File" THEN EachFile(v) ELSE EachPackage(v)

RECURSIVE SumCount(_)
SumCount(E) ==
  IF E = {} THEN 0
  ELSE LET e == CHOOSE x \in E : TRUE IN e.count + SumCount(E \ {e})

RECURSIVE SumCovered(_)
SumCovered(E) ==
  IF E = {} THEN 0
  ELSE LET e == CHOOSE x \in E : TRUE IN e.covered + SumCovered(E \ {e})

\* cc := m[path]; cc.Count += count; cc.Covered += covered; m[path] = cc
Accumulate(E) ==
  [p \in {e.path : e \in E} |->
     [Count   |-> SumCount({e \in E : e.path = p}),
      Covered |-> SumCovered({e \in E : e.path = p})]]

Panics(E) == \E e \in E : e.path = Panic

(***************************************************************************)
(* Aggregator                                                              *)
(***************************************************************************)
ByFiles(v) ==
  LET E == EachStatement(v)
  IN IF v.panic \/ Panics(E) THEN PanicView
     ELSE [grp |-> "File", panic |-> FALSE, delta |-> FALSE, data |-> Accumulate(E)]

ByPackage(v) ==
  LET E    == EachFile(v)
      kept == {e \in E : LastIndexByte(e.path, "/") >= 0}
      P    == {Entry(e.k, SliceTo(e.path, LastIndexByte(e.path, "/")), e.count, e.covered) :
                 e \in kept}
  IN IF v.panic \/ Panics(E) THEN PanicView
     ELSE [grp |-> "Package", panic |-> FALSE, delta |-> FALSE, data |-> Accumulate(P)]

ByRoot(v) ==
  LET E == EachPackage(v)
      R == {Entry(e.k, pathroot(e.path), e.count, e.covered) : e \in E}
  IN IF v.panic \/ Panics(E) THEN PanicView
     ELSE [grp |-> "Root", panic |-> FALSE, delta |-> FALSE, data |-> Accumulate(R)]

ByModule(v) ==
  LET E == EachPackage(v)
      m(path) == LET parts == Split(path, "/")
                 IN Join(IF Len(parts) > 3 THEN SubSeq(parts, 1, 3) ELSE parts, "/")
      M == {Entry(e.k, m(e.path), e.count, e.covered) : e \in E}
  IN IF v.panic \/ Panics(E) THEN PanicView
     ELSE [grp |-> "Module", panic |-> FALSE, delta |-> FALSE, data |-> Accumulate(M)]

(***************************************************************************)
(* Differ                                                                  *)
(***************************************************************************)
groupings == <<"", "Statement", "File", "Package", "Root", "Module">>

\* the loop of Diff over groupings: 0-based index of grp, 0 when absent
GroupIndex(grp) ==
  LET I == {i \in 1..Len(groupings) : groupings[i] = grp}
  IN IF I = {} THEN 0 ELSE Max(I) - 1

\* as with case 'M' returning what case 'R' returns
as_RootForModule(grp, ep) ==
  CASE grp = "Package" -> IF ep.grp = "File" THEN ByPackage(ep) ELSE PanicView
    [] grp = "Root"    -> ByRoot(ep)
    [] grp = "Module"  -> ByRoot(ep)
    [] OTHER           -> PanicView

\* the closure as of Diff; ep.(EachFiler) holds of a FileData only
as(grp, ep) ==
  CASE grp = "Package" -> IF ep.grp = "File" THEN ByPackage(ep) ELSE PanicView
    [] grp = "Root"    -> ByRoot(ep)
    [] grp = "Module"  -> ByModule(ep)
    [] OTHER           -> PanicView

NoDelta == [k \in {} |-> [BaseCount |-> 0, BaseCovered |-> 0, HeadCount |-> 0, HeadCovered |-> 0]]

\* cc.XCount = count of the call for path p (0 without a call)
LastCount(E, p) ==
  LET Ep == {e \in E : e.path = p}
  IN IF Ep = {} THEN 0 ELSE (CHOOSE e \in Ep : TRUE).count

\* the second callback of DeltaOf storing into the Base fields
DeltaOf_HeadIntoBase(O, N) ==
  [p \in {e.path : e \in O \cup N} |->
     [BaseCount   |-> IF {e \in N : e.path = p} = {} THEN LastCount(O, p)
                      ELSE LastCount(N, p),
      BaseCovered |-> SumCovered({e \in O \cup N : e.path = p}),
      HeadCount   |-> 0,
      HeadCovered |-> 0]]

\* the second callback of DeltaOf adding count to HeadCovered
DeltaOf_CoveredFromCount(O, N) ==
  [p \in {e.path : e \in O \cup N} |->
     [BaseCount   |-> LastCount(O, p),
      BaseCovered |-> SumCovered({e \in O : e.path = p}),
      HeadCount   |-> LastCount(N, p),
      HeadCovered |-> SumCount({e \in N : e.path = p})]]

\* the map delta after oldEach and newEach have run their callbacks over the
\* calls O and N
DeltaOf(O, N) ==
  [p \in {e.path : e \in O \cup N} |->
     [BaseCount   |-> LastCount(O, p),
      BaseCovered |-> SumCovered({e \in O : e.path = p}),
      HeadCount   |-> LastCount(N, p),
      HeadCovered |-> SumCovered({e \in N : e.path = p})]]

Diff(old, new) ==
  LET oldGrp == old.grp
      newGrp == new.grp
      oldN   == GroupIndex(oldGrp)
      newN   == GroupIndex(newGrp)
      oldV   == IF oldN < newN THEN as(newGrp, old) ELSE old
      newV   == IF oldN < newN THEN new
                ELSE IF newN < oldN THEN as(oldGrp, new) ELSE new
      grp    == IF oldN < newN THEN newGrp ELSE oldGrp
  IN IF old.panic \/ new.panic \/ oldV.panic \/ newV.panic
        \/ grp \notin {"File", "Package", "Root", "Module"}
     THEN PanicView
     ELSE [grp |-> grp, panic |-> FALSE, delta |-> TRUE,
           data |-> DeltaOf(EachPath(oldV), EachPath(newV))]

(***************************************************************************)
(* float64 quotients: [num, den] is float64(num)/float64(den); den = 0 is  *)
(* NaN (num = 0) or an infinity with the sign of num.  Two correctly       *)
(* rounded quotients of equal rationals are the same float64, so equality  *)
(* and the sign of a difference are those of the rationals.                *)
(***************************************************************************)
Quot(n, d) == [num |-> n, den |-> d]

Zero == Quot(0, 1)

IsNaN(x) == x.den = 0 /\ x.num = 0

IsFinite(x) == x.den # 0

Sign(n) == IF n > 0 THEN 1 ELSE IF n < 0 THEN 0 - 1 ELSE 0

\* x > 0
Positive(x) == IF x.den = 0 THEN x.num > 0 ELSE Sign(x.num) * Sign(x.den) > 0

\* x - y
Minus(x, y) ==
  IF IsNaN(x) \/ IsNaN(y) THEN Quot(0, 0)
  ELSE IF IsFinite(x) /\ IsFinite(y)
  THEN Quot(x.num * y.den - y.num * x.den, x.den * y.den)
  ELSE IF IsFinite(y) THEN Quot(Sign(x.num), 0)
  ELSE IF IsFinite(x) THEN Quot(0 - Sign(y.num), 0)
  ELSE IF Sign(x.num) = Sign(y.num) THEN Quot(0, 0) ELSE Quot(Sign(x.num), 0)

\* x == 0.0
IsZero(x) == IsFinite(x) /\ x.num = 0

(***************************************************************************)
(* Report renderer                                                         *)
(***************************************************************************)
\* byte order of the characters of the paths
Ascii == <<"\t", " ", "*", "+", "-", ".", "/", "0", "1", "2", "3", "4", "5", "6",
           "7", "8", "9", ":", "a", "b", "c", "d", "e", "f", "g", "m", "n", "o",
           "s", "t", "x">>

Ord(c) == CHOOSE i \in 1..Len(Ascii) : Ascii[i] = c

\* a <= b for Go strings
StrLeq(a, b) ==
  LET n == IF Len(a) < Len(b) THEN Len(a) ELSE Len(b)
      D == {i \in 1..n : a[i] # b[i]}
  IN IF D = {} THEN Len(a) <= Len(b)
     ELSE Ord(a[Min(D)]) < Ord(b[Min(D)])

\* sort.Strings of a list given as the set of its elements [k, name], k
\* telling equal names apart
RECURSIVE SortStrings(_)
SortStrings(L) ==
  IF L = {} THEN <<>>
  ELSE LET m == CHOOSE x \in L : \A y \in L : StrLeq(x.name, y.name)
       IN <<m.name>> \o SortStrings(L \ {m})

\* FileData.Paths, PathData.Paths, PathDelta.Paths
Paths(c) ==
  IF c.delta
  THEN SortStrings({[k |-> k, name |-> TrimSuffix(k, <<"/">>)] : k \in DOMAIN c.data})
  ELSE SortStrings({[k |-> k, name |-> k] : k \in DOMAIN c.data})

NoCounts == [Total |-> 0, Covered |-> 0, IsAggregate |-> FALSE]

\* the agg argument the wrapper types pass to PathData.Detail / PathDelta.Detail
Agg(c) == c.grp \in {"Root", "Module"}

\* FileData.Detail, PathData.Detail, PathDelta.Detail through the wrappers
Detail(c, p) ==
  LET agg == IF c.grp = "File" /\ ~c.delta THEN FALSE ELSE Agg(c) /\ p # <<".">>
  IN IF p \notin DOMAIN c.data
     THEN [Total |-> 0, Covered |-> 0, IsAggregate |-> agg]
     ELSE IF c.delta
     THEN [Total |-> c.data[p].HeadCount, Covered |-> c.data[p].HeadCovered,
           IsAggregate |-> agg]
     ELSE [Total |-> c.data[p].Count, Covered |-> c.data[p].Covered,
           IsAggregate |-> agg]

\* PathDelta.BaseDetail through the wrappers
BaseDetail(c, p) ==
  LET agg == Agg(c) /\ p # <<".">>
  IN IF p \notin DOMAIN c.data
     THEN [Total |-> 0, Covered |-> 0, IsAggregate |-> agg]
     ELSE [Total |-> c.data[p].BaseCount, Covered |-> c.data[p].BaseCovered,
           IsAggregate |-> agg]

\* the total row appended to every view that has a path
ReportPkgs_Always(c) ==
  LET pkgs == Paths(c) IN IF Len(pkgs) > 0 THEN Append(pkgs, <<"*">>) ELSE pkgs

\* pkgs := c.Paths(); if len(pkgs) > 1 { pkgs = append(pkgs, "*") }
ReportPkgs(c) ==
  LET pkgs == Paths(c) IN IF Len(pkgs) > 1 THEN Append(pkgs, <<"*">>) ELSE pkgs

\* the first loop of ReportTo and ReportMDTo: btot and htot after i rows
RECURSIVE Totals(_, _, _)
Totals(c, pkgs, i) ==
  IF i = 0
  THEN [b |-> NoCounts, h |-> NoCounts]
  ELSE LET t  == Totals(c, pkgs, i - 1)
           hd == Detail(c, pkgs[i])
           bd == IF c.delta THEN BaseDetail(c, pkgs[i]) ELSE NoCounts
       IN IF i > 1 /\ i = Len(pkgs) THEN t
          ELSE [b |-> [Total |-> t.b.Total + bd.Total,
                       Covered |-> t.b.Covered + bd.Covered, IsAggregate |-> FALSE],
                h |-> [Total |-> t.h.Total + hd.Total,
                       Covered |-> t.h.Covered + hd.Covered, IsAggregate |-> FALSE]]

\* one line of ReportTo (second loop, 1-based row i)
ReportRow(c, pkgs, i) ==
  LET tot     == Totals(c, pkgs, Len(pkgs))
      isTotal == i > 1 /\ i = Len(pkgs)
      hd      == IF isTotal THEN tot.h ELSE Detail(c, pkgs[i])
      bd      == IF isTotal THEN tot.b
                 ELSE IF c.delta THEN BaseDetail(c, pkgs[i]) ELSE NoCounts
      label   == IF isTotal THEN <<"<", "a", "l", "l", ">", ":">>
                 ELSE IF hd.IsAggregate THEN pkgs[i] \o <<"/", ".", ".", ".", ":">>
                 ELSE pkgs[i] \o <<":">>
      pctHead == IF hd.Total # 0 THEN Quot(100 * hd.Covered, hd.Total) ELSE Zero
      pctBase == IF bd.Total # 0 THEN Quot(100 * bd.Covered, bd.Total) ELSE Zero
  IN [label |-> label, isTotal |-> isTotal,
      form  |-> IF Positive(pctBase) THEN "was"
                ELSE IF c.delta THEN "delta" ELSE "plain",
      pct |-> pctHead, hd |-> hd, change |-> Minus(pctHead, pctBase),
      was |-> pctBase, bd |-> bd]

\* ReportTo / Report: the lines written
ReportTo(c) ==
  LET pkgs == ReportPkgs(c) IN [i \in 1..Len(pkgs) |-> ReportRow(c, pkgs, i)]

\* one data line of ReportMDTo (second loop, 1-based row i)
ReportMDRow(c, pkgs, i) ==
  LET tot     == Totals(c, pkgs, Len(pkgs))
      isTotal == ~(i = 1 \/ i # Len(pkgs))
      hd      == IF isTotal THEN tot.h ELSE Detail(c, pkgs[i])
      bd      == IF isTotal \/ ~c.delta THEN tot.b ELSE BaseDetail(c, pkgs[i])
      label   == IF isTotal THEN <<"*", "*", "T", "o", "t", "a", "l", "*", "*">>
                 ELSE IF hd.IsAggregate THEN pkgs[i] \o <<"/", ".", ".", ".">>
                 ELSE pkgs[i]
      hpct    == IF hd.Total > 0 THEN Quot(100 * hd.Covered, hd.Total) ELSE Zero
      bpct    == Quot(100 * bd.Covered, bd.Total)
  IN IF bd.Total > 0
     THEN [label |-> label, isTotal |-> isTotal, form |-> "change",
           pct |-> hpct, hd |-> hd, change |-> Minus(hpct, bpct),
           was |-> bpct, bd |-> bd]
     ELSE [label |-> label, isTotal |-> isTotal, form |-> "plain",
           pct |-> Quot(100 * hd.Covered, hd.Total), hd |-> hd, change |-> Zero,
           was |-> Zero, bd |-> bd]

\* ReportMDTo / ReportMD: the header and the lines written
ReportMDTo(c) ==
  LET pkgs == ReportPkgs(c)
      tot  == Totals(c, pkgs, Len(pkgs))
  IN [grouping |-> c.grp, change |-> tot.b.Total > 0,
      rows |-> [i \in 1..Len(pkgs) |-> ReportMDRow(c, pkgs, i)]]

Percent(c) ==
  LET E       == EachPath(c)
      totalct == SumCount(E)
      totalcov == SumCovered(E)
  IN IF totalct = 0 THEN Zero ELSE Quot(totalcov * 100, totalct)

(***************************************************************************)
(* GitHub Actions workflow commands (cmd/coverpkg-gha/gha.go)              *)
(***************************************************************************)
\* the largest line or column number handed to At, Line, Lines, Col, Cols
MaxPos == 1

\* ghaEscaper = strings.NewReplacer("%", "%25", "\n", "%0A", "\r", "%0D")
RECURSIVE ghaEscaper(_)
ghaEscaper(s) ==
  IF s = <<>> THEN <<>>
  ELSE (CASE s[1] = "%"  -> <<"%", "2", "5">>
          [] s[1] = "\n" -> <<"%", "0", "A">>
          [] s[1] = "\r" -> <<"%", "0", "D">>
          [] OTHER       -> <<s[1]>>) \o ghaEscaper(Tail(s))

\* the verb %d of fmt
RECURSIVE Itoa(_)
Itoa(n) ==
  IF n < 0 THEN <<"-">> \o Itoa(0 - n)
  ELSE IF n < 10 THEN <<CHOOSE c \in Digits : DigitVal(c) = n>>
  ELSE Itoa(n \div 10) \o <<CHOOSE c \in Digits : DigitVal(c) = n % 10>>

\* fmt.Sprintln of string operands: a space between operands, a newline
Sprintln(a) == Join(a, " ") \o <<"\n">>

\* sprint: s := fmt.Sprintln(a...); return ghaUnsafe(s[:len(s)-1])
sprint(a) == SliceTo(Sprintln(a), Len(Sprintln(a)) - 1)

\* sprintf for the format "%s" and one string operand
sprintf(f, a) == a[1]

\* the format handed to the f variants
FormatS == <<"%", "s">>

\* ghaUnsafe.Format for the verbs 'v' and 's'
ghaUnsafe(s) == ghaEscaper(s)

\* the operands of a logging call: "a", "b" and the one operand "%\n\r"
ArgLists == { <<<<"a">>, <<"b">>>>, <<<<"%", "\n", "\r">>>> }

\* the file names handed to At: none, "f" and "f\n%"
Files == { <<>>, <<"f">>, <<"f", "\n", "%">> }

\* the titles handed to Title, Group and MaskValue: none and "t%"
Titles == { <<>>, <<"t", "%">> }

\* the line and col arguments of ErrorAt, ErrorAtf, WarningAt, WarningAtf
AtArgs == {0, MaxPos}

\* the optional linecol arguments of At
LineCols == SeqsUpTo(0..MaxPos, 2)

\* a ghaPos; made = FALSE before the first At
NoGhaPos == [made |-> FALSE, title |-> <<>>, file |-> <<>>, line |-> 0,
             lineEnd |-> 0, col |-> 0, colEnd |-> 0]

NoCall == [op |-> "", text |-> <<>>, nums |-> <<>>, cmds |-> 0]

\* ghaPos.Format with the column written whenever it is set
Format_ColWithoutLine(p) ==
  IF p.file = <<>> THEN <<>>
  ELSE <<" ", "f", "i", "l", "e", "=">> \o p.file
       \o (IF p.title # <<>> THEN <<",", "t", "i", "t", "l", "e", "=">> \o ghaUnsafe(p.title) ELSE <<>>)
       \o (IF p.line = 0 THEN <<>>
           ELSE <<",", "l", "i", "n", "e", "=">> \o Itoa(p.line)
                \o (IF p.lineEnd # 0 THEN <<",", "e", "n", "d", "L", "i", "n", "e", "=">> \o Itoa(p.lineEnd) ELSE <<>>))
       \o (IF p.col = 0 THEN <<>>
           ELSE <<",", "c", "o", "l", "=">> \o Itoa(p.col)
                \o (IF p.colEnd # 0 THEN <<",", "e", "n", "d", "C", "o", "l", "u", "m", "n", "=">> \o Itoa(p.colEnd) ELSE <<>>))

\* ghaPos.Format
Format(p) ==
  IF p.file = <<>> THEN <<>>
  ELSE <<" ", "f", "i", "l", "e", "=">> \o p.file
       \o (IF p.title # <<>> THEN <<",", "t", "i", "t", "l", "e", "=">> \o ghaUnsafe(p.title) ELSE <<>>)
       \o (IF p.line = 0 THEN <<>>
           ELSE <<",", "l", "i", "n", "e", "=">> \o Itoa(p.line)
                \o (IF p.lineEnd # 0 THEN <<",", "e", "n", "d", "L", "i", "n", "e", "=">> \o Itoa(p.lineEnd) ELSE <<>>)
                \o (IF p.col = 0 THEN <<>>
                    ELSE <<",", "c", "o", "l", "=">> \o Itoa(p.col)
                         \o (IF p.colEnd # 0 THEN <<",", "e", "n", "d", "C", "o", "l", "u", "m", "n", "=">> \o Itoa(p.colEnd)
                             ELSE <<>>)))

\* fmt.Fprintf(w, "::<name>%v::%s\n", pos, text) of the ghaPos methods
PosCommand(name, p, text) ==
  <<":", ":">> \o name \o Format(p) \o <<":", ":">> \o ghaUnsafe(text) \o <<"\n">>

\* fmt.Fprintf(gha.w, "::<name>::%s\n", text) of the GitHubAction methods
Command(name, text) ==
  <<":", ":">> \o name \o <<":", ":">> \o ghaUnsafe(text) \o <<"\n">>

\* fmt.Fprintf(gha.w, "%s\n", text) of Print and Printf
PrintLine(text) == ghaUnsafe(text) \o <<"\n">>

\* pos.Title(title)
Title(p, title) == [p EXCEPT !.title = title]

\* pos.Lines(start, end)
Lines(p, start, end) == [p EXCEPT !.line = start, !.lineEnd = end]

\* pos.Line(start)
Line(p, start) == Lines(p, start, 0)

\* pos.Cols(start, end)
Cols(p, start, end) == [p EXCEPT !.col = start, !.colEnd = end]

\* pos.Col(start)
Col(p, start) == Cols(p, start, 0)

\* gha.At(file, linecol...)
AtPos(name, linecol) ==
  [made |-> TRUE, title |-> <<>>, file |-> name,
   line |-> IF Len(linecol) > 0 THEN linecol[1] ELSE 0, lineEnd |-> 0,
   col |-> IF Len(linecol) > 1 THEN linecol[2] ELSE 0, colEnd |-> 0]

(***************************************************************************)
(* File commands of the GitHub Actions logger: SetOutput, SetEnv, AddPath  *)
(***************************************************************************)
\* the number of SetOutput, SetEnv and AddPath calls of one run
MaxCalls == 2

FileKinds == {"SetOutput", "SetEnv", "AddPath"}

\* cfg.SetOutput, cfg.SetEnv, cfg.SetPath: empty, or the path "p"
PathSet == { <<>>, <<"p">> }

\* the name and the values handed to the calls: "v", "v\n2" and "%"
VarName == <<"n">>

ValueSet == { <<"v">>, <<"v", "\n", "2">>, <<"%">> }

\* the file at a path: absent, or its content
NoFile == [exists |-> FALSE, data |-> <<>>]

NoFs == [path |-> [k \in FileKinds |-> <<>>], file |-> [k \in FileKinds |-> NoFile],
         calls |-> <<>>]

\* the format "%s=%s\n" of SetOutput, with name and ghaUnsafe(value)
OutputEntry(name, value) == name \o <<"=">> \o ghaUnsafe(value) \o <<"\n">>

\* the format of SetEnv: "%s=%s\n", or "%s=<<END_%[1]s\n%s\nEND_%[1]s\n" when
\* the value contains a line feed
EnvEntry(name, value) ==
  IF \E i \in 1..Len(value) : value[i] = "\n"
  THEN name \o <<"=", "<", "<", "E", "N", "D", "_">> \o name \o <<"\n">> \o value \o <<"\n">>
       \o <<"E", "N", "D", "_">> \o name \o <<"\n">>
  ELSE name \o <<"=">> \o value \o <<"\n">>

\* the format "%s\n" of AddPath
PathEntry(path) == path \o <<"\n">>

\* what a call of the kind writes for (name, value)
EntryOf(kind, name, value) ==
  CASE kind = "SetOutput" -> OutputEntry(name, value)
    [] kind = "SetEnv"    -> EnvEntry(name, value)
    [] kind = "AddPath"   -> PathEntry(value)

\* appendFilef opening the file without O_APPEND
appendFilef_Truncate(f, path, entry, opens) ==
  IF path = <<>> THEN [file |-> f, err |-> "errEmptyPath"]
  ELSE IF ~opens THEN [file |-> f, err |-> "open"]
  ELSE [file |-> [exists |-> TRUE, data |-> entry], err |-> "nil"]

\* appendFilef on the file f at path; opens = FALSE when os.OpenFile fails
appendFilef(f, path, entry, opens) ==
  IF path = <<>> THEN [file |-> f, err |-> "errEmptyPath"]
  ELSE IF ~opens THEN [file |-> f, err |-> "open"]
  ELSE [file |-> [exists |-> TRUE, data |-> f.data \o entry], err |-> "nil"]

\* the name of the variable GitHub sets for the kind
NotAvailable(kind) ==
  CASE kind = "SetOutput" -> <<"G", "I", "T", "H", "U", "B", "_", "O", "U", "T", "P", "U", "T", " ", "n", "o", "t", " ", "a", "v", "a", "i", "l", "a", "b", "l", "e">>
    [] kind = "SetEnv"    -> <<"G", "I", "T", "H", "U", "B", "_", "E", "N", "V", " ", "n", "o", "t", " ", "a", "v", "a", "i", "l", "a", "b", "l", "e">>
    [] kind = "AddPath"   -> <<"G", "I", "T", "H", "U", "B", "_", "P", "A", "T", "H", " ", "n", "o", "t", " ", "a", "v", "a", "i", "l", "a", "b", "l", "e">>

\* the text of the error of os.OpenFile
OpenError == <<"o", "p", "e", "n", " ", "p", ":", " ", "p", "e", "r", "m", "i", "s", "s", "i", "o", "n", " ", "d", "e", "n", "i", "e", "d">>

\* the switch on err of SetOutput, SetEnv and AddPath: what is logged
FileLog(kind, e) ==
  CASE e = "nil"          -> <<>>
    [] e = "errEmptyPath" -> Command(<<"e", "r", "r", "o", "r">>, sprint(<<NotAvailable(kind)>>))
    [] OTHER              -> Command(<<"e", "r", "r", "o", "r">>, sprint(<<OpenError>>))

(***************************************************************************)
(* Pull-request comments: doComment and the issuecomments calls            *)
(***************************************************************************)
\* the number of doComment runs on one pull request
MaxRuns == 2

\* cfg.PRComment
Modes == {"none", "append", "replace", "update"}

\* the error of an API call: nil, a *github.ErrorResponse, or another error
Errs == {"nil", "api", "net"}

\* an issue comment; tagged when its body contains "<!-- coverpkg-tag -->";
\* body is 0 for a comment that was there before, k for the body of run k
IssueComment(id, tagged, body) == [id |-> id, tagged |-> tagged, body |-> body]

\* the comments a pull request starts with
InitialComments ==
  { {},
    {IssueComment(1, TRUE, 0)},
    {IssueComment(1, FALSE, 0)},
    {IssueComment(1, FALSE, 0), IssueComment(2, TRUE, 0)},
    {IssueComment(1, TRUE, 0), IssueComment(2, TRUE, 0)} }

\* the outcomes of the API calls of one doComment run
Outcomes == [list : BOOLEAN, post : Errs, del : BOOLEAN, edit : Errs]

\* the result of a doComment run
NoResult == [run |-> 0, mode |-> "", before |-> {}, id |-> 0, err |-> "nil", calls |-> <<>>]

\* the number of doComment runs that are under way at the same time
NumRuns == 3

\* a run that is under way: the call it is at, the id of the comment found, the
\* id of the comment created, whether a call on an existing comment has failed
NewRun == [at |-> "find", oldComment |-> 0, id |-> 0, failed |-> FALSE]

NoPr == [comments |-> {}, next |-> 1, n |-> 0, last |-> NoResult, runs |-> <<>>]

\* (*IssueComment).GetID(): 0 for a nil comment
Ids(cs) == {c.id : c \in cs}

\* issuecomments.find: the id of the first tagged comment, 0 for nil
find(mode, cs, listed) ==
  IF mode # "update" /\ mode # "replace" THEN 0
  ELSE IF ~listed THEN 0
  ELSE LET T == {c.id : c \in {d \in cs : d.tagged}}
       IN IF T = {} THEN 0 ELSE Min(T)

\* issuecomments.post: the comments, the id of the comment returned, the error
post(cs, next, body, e) ==
  IF e = "nil"
  THEN [comments |-> cs \cup {IssueComment(next, TRUE, body)}, next |-> next + 1,
        id |-> next, err |-> "nil"]
  ELSE [comments |-> cs, next |-> next, id |-> 0, err |-> e]

\* issuecomments.delete: the comments left; a failure is only warned about
delete(cs, id, deleted) ==
  IF deleted THEN {c \in cs : c.id # id} ELSE cs

\* issuecomments.edit: EditComment on the id of the comment; there is no
\* comment 0, so editing a nil comment is answered with an error response
edit(cs, id, body, e) ==
  IF id \notin Ids(cs) THEN [comments |-> cs, id |-> 0, err |-> "api"]
  ELSE IF e = "nil"
  THEN [comments |-> {IF c.id = id THEN IssueComment(id, TRUE, body) ELSE c : c \in cs},
        id |-> id, err |-> "nil"]
  ELSE [comments |-> cs, id |-> 0, err |-> e]

\* the API calls made, each with its success
ApiCall(name, ok) == [api |-> name, ok |-> ok]

\* replace mode deleting the old comment before creating the new one
doReplace_DeleteFirst(cs, next, body, o) ==
  LET oldComment == find("replace", cs, o.list)
      left == IF oldComment # 0 THEN delete(cs, oldComment, o.del) ELSE cs
      r == post(left, next, body, o.post)
  IN [comments |-> r.comments, next |-> r.next, id |-> r.id, err |-> r.err,
      calls |-> <<ApiCall("list", o.list)>>
                \o (IF oldComment # 0 THEN <<ApiCall("delete", o.del)>> ELSE <<>>)
                \o <<ApiCall("post", o.post = "nil")>>]

\* case "replace" of doComment, find included
doReplace(cs, next, body, o) ==
  LET oldComment == find("replace", cs, o.list)
      r == post(cs, next, body, o.post)
      deletes == r.err = "nil" /\ oldComment # 0
  IN [comments |-> IF deletes THEN delete(r.comments, oldComment, o.del)
                   ELSE r.comments,
      next |-> r.next, id |-> r.id, err |-> r.err,
      calls |-> <<ApiCall("list", o.list), ApiCall("post", o.post = "nil")>>
                \o (IF deletes THEN <<ApiCall("delete", o.del)>> ELSE <<>>)]

\* doComment(ctx, event, detail) on the comments cs, with the body of this run
doComment(mode, cs, next, body, o) ==
  CASE mode = "replace" -> doReplace(cs, next, body, o)
    [] mode = "append" ->
         LET r == post(cs, next, body, o.post)
         IN [comments |-> r.comments, next |-> r.next, id |-> r.id, err |-> r.err,
             calls |-> <<ApiCall("post", o.post = "nil")>>]
    [] mode = "update" ->
         LET oldComment == find("update", cs, o.list)
             r == edit(cs, oldComment, body, o.edit)
         IN [comments |-> r.comments, next |-> next, id |-> r.id, err |-> r.err,
             calls |-> <<ApiCall("list", o.list), ApiCall("edit", r.err = "nil")>>]
    [] OTHER ->
         [comments |-> cs, next |-> next, id |-> 0, err |-> "nil", calls |-> <<>>]

(***************************************************************************)
(* The event payload: GitHubEvent.lookup, String and Int                   *)
(***************************************************************************)
\* the number of segments of a path
MaxSegs == 3

\* the values of a decoded payload: nil, string, float64, map[string]any, []any
Nil == [t |-> "nil", s |-> <<>>, n |-> 0, kids |-> <<>>]

Str(s) == [t |-> "string", s |-> s, n |-> 0, kids |-> <<>>]

Num(n) == [t |-> "float64", s |-> <<>>, n |-> n, kids |-> <<>>]

Obj(kids) == [t |-> "map", s |-> <<>>, n |-> 0, kids |-> kids]

Arr(kids) == [t |-> "slice", s |-> <<>>, n |-> 0, kids |-> kids]

\* {"s": "v", "n": 7, "o": {"s": "w"}, "l": ["u", {"n": 3}]}
Payload ==
  LET o == Obj(Put(EmptyMap, <<"s">>, Str(<<"w">>)))
      l == Arr(<<Str(<<"u">>), Obj(Put(EmptyMap, <<"n">>, Num(3)))>>)
  IN Obj(Put(Put(Put(Put(EmptyMap, <<"s">>, Str(<<"v">>)), <<"n">>, Num(7)),
                 <<"o">>, o), <<"l">>, l))

\* the payloads: the one above and {}
Events == {Payload, Obj(EmptyMap)}

\* the segments of the paths: keys, indexes, a negative index, an unknown key
\* and the empty segment
Segments ==
  {<<"s">>, <<"n">>, <<"o">>, <<"l">>, <<"0">>, <<"1">>, <<"-", "1">>, <<"x">>, <<>>}

\* the dotted paths of up to MaxSegs segments
EventPaths == {Join(segs, ".") : segs \in SeqsUpTo(Segments, MaxSegs) \ {<<>>}}

NoEv == [event |-> Nil, path |-> <<>>, op |-> "", v |-> Nil, str |-> <<>>, int |-> 0,
         logged |-> <<>>]

\* the loop of lookup over the segments left, from the value src: the value
\* returned and whether a warning was logged
RECURSIVE lookupFrom(_, _)
lookupFrom(src, paths) ==
  IF paths = <<>> THEN [v |-> src, warned |-> FALSE]
  ELSE LET p == Head(paths)
       IN IF src.t = "map"
          THEN IF p \in DOMAIN src.kids
               THEN lookupFrom(src.kids[p], Tail(paths))
               ELSE [v |-> Nil, warned |-> TRUE]
          ELSE IF src.t = "slice"
          THEN LET i == Atoi(p)
               IN IF ~i.ok \/ i.val >= Len(src.kids) \/ i.val < 0
                  THEN [v |-> Nil, warned |-> TRUE]
                  ELSE lookupFrom(src.kids[i.val + 1], Tail(paths))
          ELSE lookupFrom(src, Tail(paths))

\* GitHubEvent.lookup(log, path)
lookup(ghe, path) == lookupFrom(ghe, Split(path, "."))

\* GitHubEvent.String(log, path): the string and what was logged
ghe_String(ghe, path) ==
  LET r == lookup(ghe, path)
      w == IF r.warned THEN <<"warning">> ELSE <<>>
  IN IF r.v.t = "string" THEN [str |-> r.v.s, logged |-> w]
     ELSE [str |-> <<>>, logged |-> w \o <<"error">>]

\* GitHubEvent.Int(log, path): the int and what was logged
ghe_Int(ghe, path) ==
  LET r == lookup(ghe, path)
      w == IF r.warned THEN <<"warning">> ELSE <<>>
  IN IF r.v.t = "float64" THEN [int |-> r.v.n, logged |-> w]
     ELSE [int |-> 0, logged |-> w \o <<"error">>]

(***************************************************************************)
(* State                                                                   *)
(***************************************************************************)
VARIABLES
  profile,   \* the lines of the coverprofile handed to ReadProfile
  options,   \* the *TestOptions handed to ReadProfile
  lineno,    \* number of lines scanStatements has consumed
  stmts,     \* the StatementData of scanStatements
  stmtsNil,  \* TRUE when the StatementData returned is nil
  err,       \* TRUE when the error returned is not nil
  pc,        \* position of the command
  cmd,       \* the command: "show" (runShow), "calc" (runCalc), "diff" (runPR), "runDiff"
  cov,       \* the view reported by runShow / runCalc
  old,       \* the view of the base snapshot
  new,       \* the view of the head snapshot
  delta,     \* the view returned by Diff
  percent,   \* BasePct, HeadPct, DeltaPct of runPR
  report,    \* the report written
  pos,       \* the *ghaPos returned by GitHubAction.At
  output,    \* what the last call wrote to GitHubAction.w
  call,      \* the last call on the GitHubAction or on the ghaPos
  fs,        \* the files of SetOutput, SetEnv, AddPath and the calls made on them
  pr,        \* the comments of the pull request and the doComment runs on it
  act,       \* the run of coverpkg-gha: event name, inputs, steps, outputs, result
  ev         \* the event payload, the path looked up and the value returned

covVars == <<profile, options, lineno, stmts, stmtsNil, err, cmd, cov, old, new,
             delta, percent, report>>

vars == <<profile, options, lineno, stmts, stmtsNil, err, pc, cmd, cov, old, new,
          delta, percent, report, pos, output, call, fs, pr, act, ev>>

NoView == [grp |-> "", panic |-> FALSE, delta |-> FALSE, data |-> NoData]

NoReport == [format |-> "", grouping |-> "", change |-> FALSE, rows |-> <<>>]

NoPercent == [BasePct |-> Zero, HeadPct |-> Zero, DeltaPct |-> Zero]

Groupings == {"File", "Package", "Root", "Module"}

Formats == {"ascii", "markdown"}

\* Report / ReportMD as selected by cfg.Format
Render(c, format) ==
  IF format = "markdown"
  THEN LET md == ReportMDTo(c)
       IN [format |-> "markdown", grouping |-> md.grouping, change |-> md.change,
           rows |-> md.rows]
  ELSE [format |-> "ascii", grouping |-> "", change |-> FALSE, rows |-> ReportTo(c)]

\* the switch on cfg.GroupBy of runShow, over the StatementData
groupShow(by, st) ==
  CASE by = "File"    -> ByFiles(StatementView(st))
    [] by = "Package" -> ByPackage(StatementView(st))
    [] by = "Root"    -> ByRoot(StatementView(st))
    [] by = "Module"  -> ByModule(StatementView(st))

\* groupBy of coverpkg-gha and the switch on cfg.GroupBy of runCalc, over
\* the FileData of CollectFiles
groupBy(by, filecov) ==
  CASE by = "File"    -> filecov
    [] by = "Package" -> ByPackage(filecov)
    [] by = "Root"    -> ByRoot(filecov)
    [] by = "Module"  -> ByModule(filecov)

(***************************************************************************)
(* coverpkg-gha: the commands of the event names, runPush, runPR and       *)
(* runArtifactComment                                                      *)
(***************************************************************************)
\* the names coverpkg-gha is started with: ${{ github.event_name }}
EventNames ==
  {"push", "workflow_dispatch", "repository_dispatch", "pull_request",
   "pull_request_target", "workflow_run", "schedule", "issues", "merge_group"}

\* the aliases of the command "schedule"
ScheduleAliases ==
  {"check_run", "check_suite", "create", "delete", "deployment", "deployment_status",
   "fork", "gollum", "issue_comment", "issues", "label", "milestone", "page_build",
   "project", "project_card", "project_column", "public", "pull_request_review",
   "pull_request_review_comment", "registry_package", "release", "status", "watch"}

\* Commands: the name of the command an event name selects, "" when no command
\* has the name or the alias
Commands(name) ==
  CASE name = "schedule" \/ name \in ScheduleAliases -> "schedule"
    [] name \in {"push", "workflow_dispatch", "repository_dispatch"} -> "push"
    [] name \in {"pull_request", "pull_request_target"} -> "pull_request"
    [] name = "workflow_run" -> "workflow_run"
    [] OTHER -> ""

\* the inputs: nopull, nopush, comment, and whether GITHUB_EVENT_PATH is set
Configs ==
  [nopull : BOOLEAN, nopush : BOOLEAN, comment : Modes \cup {"x"},
   eventPath : BOOLEAN]

NoConfig == [nopull |-> FALSE, nopush |-> FALSE, comment |-> "none", eventPath |-> FALSE]

\* the switch on cfg.PRComment of runPR and runArtifactComment
ValidComment(c) == c \in {"", "none", "append", "replace", "update"}

\* a call of a step with its success, an output set, in the order of the run
Step(name, ok) == [step |-> name, ok |-> ok]

Output(name, value) == [name |-> name, value |-> value]

\* the coverage of the base commit stored as a note, and of the head collected
BaseFileCov ==
  ByFiles(StatementView(ReadProfile(<<Line3(FileD, <<"2">>, <<"1">>)>>, NilOptions).stmts))

HeadFileCov ==
  ByFiles(StatementView(ReadProfile(<<Line3(FileD, <<"2">>, <<"1">>),
                                      Line3(FileE, <<"1">>, <<"1">>)>>,
                                    NilOptions).stmts))

\* var basefilecov coverage.FileData
NilFileCov == [grp |-> "File", panic |-> FALSE, delta |-> FALSE, data |-> NoData]

\* cfg.GroupBy
DefaultGroupBy == "Package"

\* what a handler leaves: the steps, the outputs, the warnings and debug
\* messages, detail.FoundBase, the delta reported, what doComment returned, and
\* the error returned ("panic" when the handler does not return)
Ran(steps, outputs, warnings, debug, foundBase, diff, result) ==
  [steps |-> steps, outputs |-> outputs, warnings |-> warnings, debug |-> debug,
   foundBase |-> foundBase, diff |-> diff, comment |-> [id |-> 0, err |-> "nil"],
   result |-> result]

NotRun == Ran(<<>>, <<>>, <<>>, <<>>, FALSE, NoView, "")

NoAct == [name |-> "", cfg |-> NoConfig, command |-> "", ran |-> NotRun]

\* the outcomes of the calls of runPush
PushOutcomes == [collect : BOOLEAN, fetch : BOOLEAN, user : BOOLEAN, store : BOOLEAN,
                 push : BOOLEAN]

\* runPush setting pushed-coverage without regard to the error of notes.Push
runPush_AlwaysPushed(c, o) ==
  LET summary == <<Output("summary-txt", "txt"), Output("summary-md", "md")>>
      fetch == IF c.nopull THEN <<>> ELSE <<Step("Fetch", o.fetch)>>
      fwarn == IF ~c.nopull /\ ~o.fetch THEN <<"fetching notes:">> ELSE <<>>
  IN IF ~o.collect
     THEN Ran(<<Step("CollectFiles", FALSE)>>, <<>>, <<>>, <<>>, FALSE, NoView, "error")
     ELSE IF c.nopush
     THEN Ran(<<Step("CollectFiles", TRUE)>>, summary, <<>>, <<>>, FALSE, NoView, "ok")
     ELSE IF ~o.user
     THEN Ran(<<Step("CollectFiles", TRUE)>> \o fetch \o <<Step("EnsureUser", FALSE)>>,
              summary, fwarn, <<>>, FALSE, NoView, "error")
     ELSE IF ~o.store
     THEN Ran(<<Step("CollectFiles", TRUE)>> \o fetch
              \o <<Step("EnsureUser", TRUE), Step("Store", FALSE)>>,
              summary, fwarn, <<>>, FALSE, NoView, "error")
     ELSE Ran(<<Step("CollectFiles", TRUE)>> \o fetch
              \o <<Step("EnsureUser", TRUE), Step("Store", TRUE), Step("Push", o.push)>>,
              summary \o <<Output("pushed-coverage", "true")>>,
              fwarn \o (IF o.push THEN <<>> ELSE <<"pushing notes:">>),
              <<>>, FALSE, NoView, "ok")

\* runPush with the inputs c and the outcomes o of its calls
runPush(c, o) ==
  LET summary == <<Output("summary-txt", "txt"), Output("summary-md", "md")>>
      fetch == IF c.nopull THEN <<>> ELSE <<Step("Fetch", o.fetch)>>
      fwarn == IF ~c.nopull /\ ~o.fetch THEN <<"fetching notes:">> ELSE <<>>
  IN IF ~o.collect
     THEN Ran(<<Step("CollectFiles", FALSE)>>, <<>>, <<>>, <<>>, FALSE, NoView, "error")
     ELSE IF c.nopush
     THEN Ran(<<Step("CollectFiles", TRUE)>>, summary, <<>>, <<>>, FALSE, NoView, "ok")
     ELSE IF ~o.user
     THEN Ran(<<Step("CollectFiles", TRUE)>> \o fetch \o <<Step("EnsureUser", FALSE)>>,
              summary, fwarn, <<>>, FALSE, NoView, "error")
     ELSE IF ~o.store
     THEN Ran(<<Step("CollectFiles", TRUE)>> \o fetch
              \o <<Step("EnsureUser", TRUE), Step("Store", FALSE)>>,
              summary, fwarn, <<>>, FALSE, NoView, "error")
     ELSE Ran(<<Step("CollectFiles", TRUE)>> \o fetch
              \o <<Step("EnsureUser", TRUE), Step("Store", TRUE), Step("Push", o.push)>>,
              summary \o (IF o.push THEN <<Output("pushed-coverage", "true")>> ELSE <<>>),
              fwarn \o (IF o.push THEN <<>> ELSE <<"pushing notes:">>),
              <<>>, FALSE, NoView, "ok")

\* the results doComment can return in the mode: the id and the error
CommentResults(mode) ==
  {[id |-> r.id, err |-> r.err] :
     r \in {doComment(mode, cs, 3, 1, o) : cs \in InitialComments, o \in Outcomes}}

\* the outcomes of the calls of runPR; comment is the result of doComment
PROutcomes(c) ==
  [fetch : BOOLEAN, event : BOOLEAN, load : BOOLEAN, collect : BOOLEAN,
   artifacts : BOOLEAN, comment : CommentResults(c.comment)]

\* runPR handing the coverage of the note to Diff whatever notes.Load returned
runPR_KeepBase(c, o) ==
  LET fetch == IF c.nopull THEN <<>> ELSE <<Step("Fetch", o.fetch)>>
      fwarn == IF ~c.nopull /\ ~o.fetch THEN <<"fetching notes:">> ELSE <<>>
      load == <<Step("Event", TRUE), Step("Load", o.load)>>
      lwarn == IF o.load THEN <<>> ELSE <<"loading base coverage:">>
      found == IF o.load THEN <<Output("found-base", "true")>> ELSE <<>>
      basefilecov == BaseFileCov
      diff == Diff(groupBy(DefaultGroupBy, basefilecov),
                   groupBy(DefaultGroupBy, HeadFileCov))
      forbidden == o.comment.err = "api"
  IN IF ~ValidComment(c.comment)
     THEN Ran(<<>>, <<>>, <<>>, <<>>, FALSE, NoView, "error")
     ELSE IF ~o.event
     THEN Ran(fetch \o <<Step("Event", FALSE)>>, <<>>, fwarn, <<>>, FALSE, NoView, "panic")
     ELSE IF ~o.collect
     THEN Ran(fetch \o load \o <<Step("CollectFiles", FALSE)>>, found, fwarn \o lwarn,
              <<>>, o.load, NoView, "error")
     ELSE [Ran(fetch \o load
              \o <<Step("CollectFiles", TRUE), Step("Diff", TRUE),
                   Step("doComment", o.comment.err = "nil")>>,
              found \o <<Output("summary-txt", "txt"), Output("summary-md", "md")>>
              \o (IF o.artifacts THEN <<Output("artifacts", "dir")>> ELSE <<>>)
              \o (IF o.comment.id # 0 THEN <<Output("comment-id", o.comment.id)>>
                  ELSE <<>>)
              \o (IF forbidden THEN <<Output("comment-failed", "403")>> ELSE <<>>),
              fwarn \o lwarn, <<>>, o.load, diff,
              IF o.comment.err = "nil" \/ forbidden THEN "ok" ELSE "error")
           EXCEPT !.comment = o.comment]

\* runPR with the inputs c and the outcomes o of its calls
runPR(c, o) ==
  LET fetch == IF c.nopull THEN <<>> ELSE <<Step("Fetch", o.fetch)>>
      fwarn == IF ~c.nopull /\ ~o.fetch THEN <<"fetching notes:">> ELSE <<>>
      load == <<Step("Event", TRUE), Step("Load", o.load)>>
      lwarn == IF o.load THEN <<>> ELSE <<"loading base coverage:">>
      found == IF o.load THEN <<Output("found-base", "true")>> ELSE <<>>
      basefilecov == IF o.load THEN BaseFileCov ELSE NilFileCov
      diff == Diff(groupBy(DefaultGroupBy, basefilecov),
                   groupBy(DefaultGroupBy, HeadFileCov))
      forbidden == o.comment.err = "api"
  IN IF ~ValidComment(c.comment)
     THEN Ran(<<>>, <<>>, <<>>, <<>>, FALSE, NoView, "error")
     ELSE IF ~o.event
     THEN Ran(fetch \o <<Step("Event", FALSE)>>, <<>>, fwarn, <<>>, FALSE, NoView, "panic")
     ELSE IF ~o.collect
     THEN Ran(fetch \o load \o <<Step("CollectFiles", FALSE)>>, found, fwarn \o lwarn,
              <<>>, o.load, NoView, "error")
     ELSE [Ran(fetch \o load
              \o <<Step("CollectFiles", TRUE), Step("Diff", TRUE),
                   Step("doComment", o.comment.err = "nil")>>,
              found \o <<Output("summary-txt", "txt"), Output("summary-md", "md")>>
              \o (IF o.artifacts THEN <<Output("artifacts", "dir")>> ELSE <<>>)
              \o (IF o.comment.id # 0 THEN <<Output("comment-id", o.comment.id)>>
                  ELSE <<>>)
              \o (IF forbidden THEN <<Output("comment-failed", "403")>> ELSE <<>>),
              fwarn \o lwarn, <<>>, o.load, diff,
              IF o.comment.err = "nil" \/ forbidden THEN "ok" ELSE "error")
           EXCEPT !.comment = o.comment]

\* the outcomes of the calls of runArtifactComment: whether the event file
\* opens, workflow_run.event, the artifact, the result of doComment
ArtifactOutcomes(c) ==
  [event : BOOLEAN, wfevent : {"pull_request", "push"},
   artifact : {"found", "none", "error"}, comment : CommentResults(c.comment)]

\* runArtifactComment with the inputs c and the outcomes o of its calls
runArtifactComment(c, o) ==
  IF ~ValidComment(c.comment)
  THEN Ran(<<>>, <<>>, <<>>, <<>>, FALSE, NoView, "error")
  ELSE IF ~o.event
  THEN Ran(<<Step("Event", FALSE)>>, <<>>, <<>>, <<>>, FALSE, NoView, "panic")
  ELSE IF o.wfevent # "pull_request"
  THEN Ran(<<Step("Event", TRUE)>>, <<>>, <<"Unsupported workflow_run event:">>, <<>>,
           FALSE, NoView, "ok")
  ELSE IF o.artifact # "found"
  THEN Ran(<<Step("Event", TRUE), Step("getArtifact", FALSE)>>, <<>>, <<>>, <<>>, FALSE,
           NoView, IF o.artifact = "error" THEN "error" ELSE "ok")
  ELSE [Ran(<<Step("Event", TRUE), Step("getArtifact", TRUE),
             Step("doComment", o.comment.err = "nil")>>,
           <<Output("summary-md", "md")>>
           \o (IF o.comment.id # 0 THEN <<Output("comment-id", o.comment.id)>> ELSE <<>>),
           <<>>, <<>>, FALSE, NoView,
           IF o.comment.err = "nil" THEN "ok" ELSE "error")
        EXCEPT !.comment = o.comment]

(***************************************************************************)
(* The single-snapshot commands: ReadProfile line by line, then grouping   *)
(* and the report.                                                         *)
(***************************************************************************)
Init ==
  /\ profile \in Profiles
  /\ options \in OptionSet
  /\ lineno = 0
  /\ stmts = EmptyMap
  /\ stmtsNil = FALSE
  /\ err = FALSE
  /\ pc = "scan"
  /\ cmd = ""
  /\ cov = NoView
  /\ old = NoView
  /\ new = NoView
  /\ delta = NoView
  /\ percent = NoPercent
  /\ report = NoReport
  /\ pos = NoGhaPos
  /\ output = <<>>
  /\ call = NoCall
  /\ fs = NoFs
  /\ pr = NoPr
  /\ act = NoAct
  /\ ev = NoEv

\* one iteration of the loop of scanStatements taking the given branch
ScanStep(branch) ==
  /\ pc = "scan"
  /\ lineno < Len(profile)
  /\ LET r == scanLine(stmts, profile[lineno + 1], options)
     IN /\ r.branch = branch
        /\ stmts' = r.stmts
        /\ stmtsNil' = r.isNil
        /\ err' = r.err
        /\ pc' = IF r.err THEN "failed" ELSE "scan"
  /\ lineno' = lineno + 1
  /\ UNCHANGED <<profile, options, cmd, cov, old, new, delta, percent, report, pos, output, call, fs, pr, act, ev>>

ScanMode == ScanStep("mode")

ScanInvalid == ScanStep("invalid")

ScanExcluded == ScanStep("excluded")

ScanBadCount == ScanStep("badcount")

ScanStatement == ScanStep("stored")

\* s.Scan() returns false: return stmts, ctx.Err()
ScanEnd ==
  /\ pc = "scan"
  /\ lineno = Len(profile)
  /\ pc' = "loaded"
  /\ UNCHANGED <<profile, options, lineno, stmts, stmtsNil, err, cmd, cov, old, new,
                 delta, percent, report, pos, output, call, fs, pr, act, ev>>

\* runShow: the view is built from the StatementData
GroupShow ==
  /\ pc = "loaded"
  /\ \E by \in Groupings :
       /\ cov' = groupShow(by, stmts)
       /\ pc' = IF cov'.panic THEN "panicked" ELSE "grouped"
  /\ cmd' = "show"
  /\ UNCHANGED <<profile, options, lineno, stmts, stmtsNil, err, old, new, delta,
                 percent, report, pos, output, call, fs, pr, act, ev>>

\* runCalc, runPush: CollectFiles, then the view is built from the FileData
GroupCalc ==
  /\ pc = "loaded"
  /\ \E by \in Groupings :
       /\ cov' = (IF ByFiles(StatementView(stmts)).panic THEN PanicView
                  ELSE groupBy(by, ByFiles(StatementView(stmts))))
       /\ pc' = IF cov'.panic THEN "panicked" ELSE "grouped"
  /\ cmd' = "calc"
  /\ UNCHANGED <<profile, options, lineno, stmts, stmtsNil, err, old, new, delta,
                 percent, report, pos, output, call, fs, pr, act, ev>>

\* fmt.Print(coverage.Report(cov)) or fmt.Print(coverage.ReportMD(cov))
WriteReport ==
  /\ pc = "grouped"
  /\ \E format \in Formats : report' = Render(cov, format)
  /\ pc' = "reported"
  /\ UNCHANGED <<profile, options, lineno, stmts, stmtsNil, err, cmd, cov, old, new,
                 delta, percent, pos, output, call, fs, pr, act, ev>>

Next ==
  \/ ScanMode
  \/ ScanInvalid
  \/ ScanExcluded
  \/ ScanBadCount
  \/ ScanStatement
  \/ ScanEnd
  \/ GroupShow
  \/ GroupCalc
  \/ WriteReport

Spec == Init /\ [][Next]_vars

(***************************************************************************)
(* The diff commands (runDiff, runPR): a base and a head snapshot are      *)
(* loaded and grouped, Diff reconciles them and the delta is reported.     *)
(***************************************************************************)
InitDiff ==
  /\ profile = <<>>
  /\ options \in OptionSet
  /\ lineno = 0
  /\ stmts = EmptyMap
  /\ stmtsNil = FALSE
  /\ err = FALSE
  /\ pc = "base"
  /\ cmd = "diff"
  /\ cov = NoView
  /\ old = NoView
  /\ new = NoView
  /\ delta = NoView
  /\ percent = NoPercent
  /\ report = NoReport
  /\ pos = NoGhaPos
  /\ output = <<>>
  /\ call = NoCall
  /\ fs = NoFs
  /\ pr = NoPr
  /\ act = NoAct
  /\ ev = NoEv

\* the views a snapshot can be handed to Diff as: ReadProfile, ByFiles, then
\* a grouping
Snapshots(o) ==
  {groupBy(by, ByFiles(StatementView(ReadProfile(p, o).stmts))) :
     by \in Groupings, p \in DiffProfiles}

LoadBase ==
  /\ pc = "base"
  /\ old' \in Snapshots(options)
  /\ pc' = "head"
  /\ UNCHANGED <<profile, options, lineno, stmts, stmtsNil, err, cmd, cov, new, delta,
                 percent, report, pos, output, call, fs, pr, act, ev>>

LoadHead ==
  /\ pc = "head"
  /\ new' \in Snapshots(options)
  /\ pc' = "loaded"
  /\ UNCHANGED <<profile, options, lineno, stmts, stmtsNil, err, cmd, cov, old, delta,
                 percent, report, pos, output, call, fs, pr, act, ev>>

\* coverage.Diff(ctx, old, new) and the Percent calls of runPR
DoDiff ==
  /\ pc = "loaded"
  /\ cmd = "diff"
  /\ delta' = Diff(old, new)
  /\ percent' = [BasePct  |-> Percent(old), HeadPct |-> Percent(new),
                 DeltaPct |-> Minus(Percent(new), Percent(old))]
  /\ pc' = "diffed"
  /\ UNCHANGED <<profile, options, lineno, stmts, stmtsNil, err, cmd, cov, old, new,
                 report, pos, output, call, fs, pr, act, ev>>

\* coverage.Report(diff) or coverage.ReportMD(diff)
WriteDiffReport ==
  /\ pc = "diffed"
  /\ \E format \in Formats : report' = Render(delta, format)
  /\ pc' = "reported"
  /\ UNCHANGED <<profile, options, lineno, stmts, stmtsNil, err, cmd, cov, old, new,
                 delta, percent, pos, output, call, fs, pr, act, ev>>

NextDiff ==
  \/ LoadBase
  \/ LoadHead
  \/ DoDiff
  \/ WriteDiffReport

SpecDiff == InitDiff /\ [][NextDiff]_vars

(***************************************************************************)
(* The GitHub Actions logger: calls on a GitHubAction and on the ghaPos     *)
(* that At returns, in any order.                                          *)
(***************************************************************************)
InitGha ==
  /\ profile = <<>>
  /\ options = NilOptions
  /\ lineno = 0
  /\ stmts = EmptyMap
  /\ stmtsNil = FALSE
  /\ err = FALSE
  /\ pc = "gha"
  /\ cmd = ""
  /\ cov = NoView
  /\ old = NoView
  /\ new = NoView
  /\ delta = NoView
  /\ percent = NoPercent
  /\ report = NoReport
  /\ pos = NoGhaPos
  /\ output = <<>>
  /\ call = NoCall
  /\ fs = NoFs
  /\ pr = NoPr
  /\ act = NoAct
  /\ ev = NoEv

\* a call that changes the ghaPos to p and writes nothing
Positioned(op, text, nums, p) ==
  /\ pc = "gha"
  /\ pos' = p
  /\ output' = <<>>
  /\ call' = [op |-> op, text |-> text, nums |-> nums, cmds |-> 0]
  /\ UNCHANGED <<covVars, pc, fs, pr, act, ev>>

\* a call that writes wr, made of cmds workflow commands, and leaves the
\* ghaPos as it is
Logged(op, text, nums, cmds, wr) ==
  /\ pc = "gha"
  /\ output' = wr
  /\ call' = [op |-> op, text |-> text, nums |-> nums, cmds |-> cmds]
  /\ UNCHANGED <<covVars, pc, pos, fs, pr, act, ev>>

\* pos := gha.At(file, linecol...)
gha_At ==
  /\ pc = "gha"
  /\ \E name \in Files, linecol \in LineCols :
       Positioned("At", name, linecol, AtPos(name, linecol))

pos_Title ==
  /\ pos.made
  /\ \E title \in Titles : Positioned("Title", title, <<>>, Title(pos, title))

pos_Line ==
  /\ pos.made
  /\ \E start \in 0..MaxPos : Positioned("Line", <<>>, <<start>>, Line(pos, start))

pos_Lines ==
  /\ pos.made
  /\ \E start \in 0..MaxPos, end \in 0..MaxPos :
       Positioned("Lines", <<>>, <<start, end>>, Lines(pos, start, end))

pos_Col ==
  /\ pos.made
  /\ \E start \in 0..MaxPos : Positioned("Col", <<>>, <<start>>, Col(pos, start))

pos_Cols ==
  /\ pos.made
  /\ \E start \in 0..MaxPos, end \in 0..MaxPos :
       Positioned("Cols", <<>>, <<start, end>>, Cols(pos, start, end))

\* ghaPos.Notice
pos_Notice ==
  /\ pos.made
  /\ \E a \in ArgLists :
       Logged("pos.Notice", sprint(a), <<>>, 1, PosCommand(<<"n", "o", "t", "i", "c", "e">>, pos, sprint(a)))

\* ghaPos.Noticef
pos_Noticef ==
  /\ pos.made
  /\ \E a \in ArgLists :
       Logged("pos.Noticef", sprintf(FormatS, a), <<>>, 1, PosCommand(<<"n", "o", "t", "i", "c", "e">>, pos, sprintf(FormatS, a)))

\* ghaPos.Error
pos_Error ==
  /\ pos.made
  /\ \E a \in ArgLists :
       Logged("pos.Error", sprint(a), <<>>, 1, PosCommand(<<"e", "r", "r", "o", "r">>, pos, sprint(a)))

\* ghaPos.Errorf
pos_Errorf ==
  /\ pos.made
  /\ \E a \in ArgLists :
       Logged("pos.Errorf", sprintf(FormatS, a), <<>>, 1, PosCommand(<<"e", "r", "r", "o", "r">>, pos, sprintf(FormatS, a)))

\* ghaPos.Warning
pos_Warning ==
  /\ pos.made
  /\ \E a \in ArgLists :
       Logged("pos.Warning", sprint(a), <<>>, 1, PosCommand(<<"w", "a", "r", "n", "i", "n", "g">>, pos, sprint(a)))

\* ghaPos.Warningf
pos_Warningf ==
  /\ pos.made
  /\ \E a \in ArgLists :
       Logged("pos.Warningf", sprintf(FormatS, a), <<>>, 1, PosCommand(<<"w", "a", "r", "n", "i", "n", "g">>, pos, sprintf(FormatS, a)))

\* GitHubAction.Debug
gha_Debug ==
  /\ pc = "gha"
  /\ \E a \in ArgLists : Logged("Debug", sprint(a), <<>>, 1, Command(<<"d", "e", "b", "u", "g">>, sprint(a)))

\* GitHubAction.Debugf
gha_Debugf ==
  /\ pc = "gha"
  /\ \E a \in ArgLists : Logged("Debugf", sprintf(FormatS, a), <<>>, 1, Command(<<"d", "e", "b", "u", "g">>, sprintf(FormatS, a)))

\* GitHubAction.Print
gha_Println ==
  /\ pc = "gha"
  /\ \E a \in ArgLists : Logged("Print", sprint(a), <<>>, 1, PrintLine(sprint(a)))

\* GitHubAction.Printf
gha_Printf ==
  /\ pc = "gha"
  /\ \E a \in ArgLists : Logged("Printf", sprintf(FormatS, a), <<>>, 1, PrintLine(sprintf(FormatS, a)))

\* GitHubAction.Error
gha_Error ==
  /\ pc = "gha"
  /\ \E a \in ArgLists : Logged("Error", sprint(a), <<>>, 1, Command(<<"e", "r", "r", "o", "r">>, sprint(a)))

\* GitHubAction.Errorf
gha_Errorf ==
  /\ pc = "gha"
  /\ \E a \in ArgLists : Logged("Errorf", sprintf(FormatS, a), <<>>, 1, Command(<<"e", "r", "r", "o", "r">>, sprintf(FormatS, a)))

\* GitHubAction.ErrorAt: gha.At(file, line, col).Error(a...)
gha_ErrorAt ==
  /\ pc = "gha"
  /\ \E name \in Files, line \in AtArgs, col \in AtArgs, a \in ArgLists :
       Logged("ErrorAt", sprint(a), <<line, col>>, 1,
              PosCommand(<<"e", "r", "r", "o", "r">>, AtPos(name, <<line, col>>), sprint(a)))

\* GitHubAction.ErrorAtf: gha.At(file, line, col).Errorf(format, a...)
gha_ErrorAtf ==
  /\ pc = "gha"
  /\ \E name \in Files, line \in AtArgs, col \in AtArgs, a \in ArgLists :
       Logged("ErrorAtf", sprintf(FormatS, a), <<line, col>>, 1,
              PosCommand(<<"e", "r", "r", "o", "r">>, AtPos(name, <<line, col>>), sprintf(FormatS, a)))

\* GitHubAction.Warning
gha_Warning ==
  /\ pc = "gha"
  /\ \E a \in ArgLists : Logged("Warning", sprint(a), <<>>, 1, Command(<<"w", "a", "r", "n", "i", "n", "g">>, sprint(a)))

\* GitHubAction.Warningf
gha_Warningf ==
  /\ pc = "gha"
  /\ \E a \in ArgLists : Logged("Warningf", sprintf(FormatS, a), <<>>, 1, Command(<<"w", "a", "r", "n", "i", "n", "g">>, sprintf(FormatS, a)))

\* GitHubAction.WarningAt: gha.At(file, line, col).Warning(a...)
gha_WarningAt ==
  /\ pc = "gha"
  /\ \E name \in Files, line \in AtArgs, col \in AtArgs, a \in ArgLists :
       Logged("WarningAt", sprint(a), <<line, col>>, 1,
              PosCommand(<<"w", "a", "r", "n", "i", "n", "g">>, AtPos(name, <<line, col>>), sprint(a)))

\* GitHubAction.WarningAtf: gha.At(file, line, col).Warningf(format, a...)
gha_WarningAtf ==
  /\ pc = "gha"
  /\ \E name \in Files, line \in AtArgs, col \in AtArgs, a \in ArgLists :
       Logged("WarningAtf", sprintf(FormatS, a), <<line, col>>, 1,
              PosCommand(<<"w", "a", "r", "n", "i", "n", "g">>, AtPos(name, <<line, col>>), sprintf(FormatS, a)))

\* GitHubAction.Group: the title line, what fn writes (nothing, or one
\* i.Print(a...)), then the endgroup line
gha_Group ==
  /\ pc = "gha"
  /\ \E title \in Titles, inner \in {<<>>} \cup {PrintLine(sprint(a)) : a \in ArgLists} :
       Logged("Group", title, <<>>, IF inner = <<>> THEN 2 ELSE 3,
              Command(<<"g", "r", "o", "u", "p">>, title) \o inner \o <<":", ":", "e", "n", "d", "g", "r", "o", "u", "p", ":", ":">> \o <<"\n">>)

\* GitHubAction.MaskValue
gha_MaskValue ==
  /\ pc = "gha"
  /\ \E secret \in Titles : Logged("MaskValue", secret, <<>>, 1, Command(<<"a", "d", "d", "-", "m", "a", "s", "k">>, secret))

NextGha ==
  \/ gha_At
  \/ pos_Title
  \/ pos_Line
  \/ pos_Lines
  \/ pos_Col
  \/ pos_Cols
  \/ pos_Notice
  \/ pos_Noticef
  \/ pos_Error
  \/ pos_Errorf
  \/ pos_Warning
  \/ pos_Warningf
  \/ gha_Debug
  \/ gha_Debugf
  \/ gha_Println
  \/ gha_Printf
  \/ gha_Error
  \/ gha_Errorf
  \/ gha_ErrorAt
  \/ gha_ErrorAtf
  \/ gha_Warning
  \/ gha_Warningf
  \/ gha_WarningAt
  \/ gha_WarningAtf
  \/ gha_Group
  \/ gha_MaskValue

SpecGha == InitGha /\ [][NextGha]_vars

(***************************************************************************)
(* The file commands: SetOutput, SetEnv and AddPath calls in any order on   *)
(* a configuration that has each of the three paths set or empty.          *)
(***************************************************************************)
\* the coverage commands have not run
CovIdle ==
  /\ profile = <<>>
  /\ options = NilOptions
  /\ lineno = 0
  /\ stmts = EmptyMap
  /\ stmtsNil = FALSE
  /\ err = FALSE
  /\ cmd = ""
  /\ cov = NoView
  /\ old = NoView
  /\ new = NoView
  /\ delta = NoView
  /\ percent = NoPercent
  /\ report = NoReport

InitFiles ==
  /\ CovIdle
  /\ pc = "files"
  /\ pos = NoGhaPos
  /\ output = <<>>
  /\ call = NoCall
  /\ fs \in {[NoFs EXCEPT !.path = p] : p \in [FileKinds -> PathSet]}
  /\ pr = NoPr
  /\ act = NoAct
  /\ ev = NoEv

\* one SetOutput, SetEnv or AddPath call
FileCall(kind, name, value) ==
  /\ pc = "files"
  /\ Len(fs.calls) < MaxCalls
  /\ \E opens \in BOOLEAN :
       LET r == appendFilef(fs.file[kind], fs.path[kind], EntryOf(kind, name, value),
                            opens)
       IN /\ fs' = [fs EXCEPT !.file[kind] = r.file,
                              !.calls = Append(@, [kind |-> kind, name |-> name,
                                                   value |-> value, err |-> r.err])]
          /\ output' = FileLog(kind, r.err)
          /\ call' = [op |-> kind, text |-> value, nums |-> <<>>,
                      cmds |-> IF r.err = "nil" THEN 0 ELSE 1]
  /\ UNCHANGED <<covVars, pc, pos, pr, act, ev>>

gha_SetOutput ==
  /\ pc = "files"
  /\ \E value \in ValueSet : FileCall("SetOutput", VarName, value)

gha_SetEnv ==
  /\ pc = "files"
  /\ \E value \in ValueSet : FileCall("SetEnv", VarName, value)

gha_AddPath ==
  /\ pc = "files"
  /\ \E path \in ValueSet : FileCall("AddPath", <<>>, path)

NextFiles ==
  \/ gha_SetOutput
  \/ gha_SetEnv
  \/ gha_AddPath

SpecFiles == InitFiles /\ [][NextFiles]_vars

(***************************************************************************)
(* doComment runs, one after the other, on one pull request.               *)
(***************************************************************************)
InitComment ==
  /\ CovIdle
  /\ pc = "comment"
  /\ pos = NoGhaPos
  /\ output = <<>>
  /\ call = NoCall
  /\ fs = NoFs
  /\ pr \in {[NoPr EXCEPT !.comments = cs, !.next = 3] : cs \in InitialComments}
  /\ act = NoAct
  /\ ev = NoEv

\* one doComment run in the mode
CommentRun(mode) ==
  /\ pc = "comment"
  /\ pr.n < MaxRuns
  /\ \E o \in Outcomes :
       LET r == doComment(mode, pr.comments, pr.next, pr.n + 1, o)
       IN pr' = [pr EXCEPT !.comments = r.comments,
                           !.next = r.next,
                           !.n = @ + 1,
                           !.last = [run |-> pr.n + 1, mode |-> mode,
                                     before |-> pr.comments, id |-> r.id,
                                     err |-> r.err, calls |-> r.calls]]
  /\ UNCHANGED <<covVars, pc, pos, output, call, fs, act, ev>>

comment_none == pc = "comment" /\ CommentRun("none")

comment_append == pc = "comment" /\ CommentRun("append")

comment_replace == pc = "comment" /\ CommentRun("replace")

comment_update == pc = "comment" /\ CommentRun("update")

NextComment ==
  \/ comment_none
  \/ comment_append
  \/ comment_replace
  \/ comment_update

SpecComment == InitComment /\ [][NextComment]_vars

(***************************************************************************)
(* Replace-mode doComment runs of several workflow runs on one pull        *)
(* request: each API call is one step, the steps of the runs interleave.   *)
(***************************************************************************)
InitRace ==
  /\ CovIdle
  /\ pc = "race"
  /\ pos = NoGhaPos
  /\ output = <<>>
  /\ call = NoCall
  /\ fs = NoFs
  /\ pr \in {[NoPr EXCEPT !.comments = cs, !.next = 3,
                          !.runs = [i \in 1..NumRuns |-> NewRun]] :
               cs \in {c \in InitialComments : Cardinality({d \in c : d.tagged}) <= 1}}
  /\ act = NoAct
  /\ ev = NoEv

\* oldComment := prcomment.find(ctx)
race_find ==
  /\ pc = "race"
  /\ \E i \in 1..NumRuns, listed \in BOOLEAN :
       /\ pr.runs[i].at = "find"
       /\ pr' = [pr EXCEPT !.runs[i] =
                   [@ EXCEPT !.at = "post",
                             !.oldComment = find("replace", pr.comments, listed),
                             !.failed = ~listed]]
  /\ UNCHANGED <<covVars, pc, pos, output, call, fs, act, ev>>

\* comment, err = prcomment.post(ctx, body)
race_post ==
  /\ pc = "race"
  /\ \E i \in 1..NumRuns, e \in Errs :
       /\ pr.runs[i].at = "post"
       /\ LET r == post(pr.comments, pr.next, i, e)
          IN pr' = [pr EXCEPT !.comments = r.comments,
                              !.next = r.next,
                              !.runs[i] =
                                [@ EXCEPT !.at = IF r.err = "nil"
                                                    /\ pr.runs[i].oldComment # 0
                                                 THEN "delete" ELSE "done",
                                          !.id = r.id,
                                          !.failed = @ \/ r.err # "nil"]]
  /\ UNCHANGED <<covVars, pc, pos, output, call, fs, act, ev>>

\* prcomment.delete(ctx, oldComment); the call fails on a comment that is gone
race_delete ==
  /\ pc = "race"
  /\ \E i \in 1..NumRuns, deleted \in BOOLEAN :
       /\ pr.runs[i].at = "delete"
       /\ LET there == pr.runs[i].oldComment \in Ids(pr.comments)
          IN pr' = [pr EXCEPT !.comments = delete(@, pr.runs[i].oldComment,
                                                  there /\ deleted),
                              !.runs[i] = [@ EXCEPT !.at = "done",
                                                    !.failed = @ \/ (there /\ ~deleted)]]
  /\ UNCHANGED <<covVars, pc, pos, output, call, fs, act, ev>>

NextRace ==
  \/ race_find
  \/ race_post
  \/ race_delete

SpecRace == InitRace /\ [][NextRace]_vars

(***************************************************************************)
(* One run of coverpkg-gha: app.Run selects the command of the event name  *)
(* and runs its Before and its Action.                                     *)
(***************************************************************************)
InitAction ==
  /\ CovIdle
  /\ pc = "main"
  /\ pos = NoGhaPos
  /\ output = <<>>
  /\ call = NoCall
  /\ fs = NoFs
  /\ pr = NoPr
  /\ act \in {[NoAct EXCEPT !.name = n, !.cfg = c] : n \in EventNames, c \in Configs}
  /\ ev = NoEv

\* the handler has returned r
Returned(r) ==
  /\ act' = [act EXCEPT !.ran = r]
  /\ pc' = "exit"
  /\ UNCHANGED <<covVars, pos, output, call, fs, pr, ev>>

\* app.Run(os.Args): the command of the name and its Before; without a command
\* no Action of the program runs, and the library decides the result
app_Run ==
  /\ pc = "main"
  /\ LET command == Commands(act.name)
     IN IF command = ""
        THEN /\ \E result \in {"ok", "error"} :
                  act' = [act EXCEPT !.ran = [NotRun EXCEPT !.result = result]]
             /\ pc' = "exit"
        ELSE IF command # "schedule" /\ ~act.cfg.eventPath
        THEN /\ act' = [act EXCEPT !.command = command,
                                   !.ran = [NotRun EXCEPT !.result = "error"]]
             /\ pc' = "exit"
        ELSE /\ act' = [act EXCEPT !.command = command]
             /\ pc' = "action"
  /\ UNCHANGED <<covVars, pos, output, call, fs, pr, ev>>

\* the Action of the command "schedule"
act_Unsupported ==
  /\ pc = "action"
  /\ act.command = "schedule"
  /\ Returned(Ran(<<>>, <<>>, <<>>, <<"Unsupported event">>, FALSE, NoView, "ok"))

act_runPush ==
  /\ pc = "action"
  /\ act.command = "push"
  /\ \E o \in PushOutcomes : Returned(runPush(act.cfg, o))

act_runPR ==
  /\ pc = "action"
  /\ act.command = "pull_request"
  /\ \E o \in PROutcomes(act.cfg) : Returned(runPR(act.cfg, o))

act_runArtifactComment ==
  /\ pc = "action"
  /\ act.command = "workflow_run"
  /\ \E o \in ArtifactOutcomes(act.cfg) : Returned(runArtifactComment(act.cfg, o))

NextAction ==
  \/ app_Run
  \/ act_Unsupported
  \/ act_runPush
  \/ act_runPR
  \/ act_runArtifactComment

SpecAction == InitAction /\ [][NextAction]_vars

(***************************************************************************)
(* runDiff of coverpkg: the base is loaded from a note or a coverprofile,  *)
(* the head is collected, both are grouped by package, diffed and printed. *)
(***************************************************************************)
InitRunDiff ==
  /\ profile = <<>>
  /\ options \in OptionSet
  /\ lineno = 0
  /\ stmts = EmptyMap
  /\ stmtsNil = FALSE
  /\ err = FALSE
  /\ pc = "base"
  /\ cmd = "runDiff"
  /\ cov = NoView
  /\ old = NoView
  /\ new = NoView
  /\ delta = NoView
  /\ percent = NoPercent
  /\ report = NoReport
  /\ pos = NoGhaPos
  /\ output = <<>>
  /\ call = NoCall
  /\ fs = NoFs
  /\ pr = NoPr
  /\ act = NoAct
  /\ ev = NoEv

\* the FileData of a note or of a coverprofile read with the options
FileCovs(o) == {ByFiles(StatementView(ReadProfile(p, o).stmts)) : p \in DiffProfiles}

\* basefilecov of notes.Load or of LoadProfile and ByFiles, nil without
\* cfg.BaseRef and cfg.BaseProfile; a failed load is returned as the error
runDiff_LoadBase ==
  /\ pc = "base"
  /\ cmd = "runDiff"
  /\ \/ /\ old' \in {ByPackage(f) : f \in FileCovs(options) \cup {NilFileCov}}
        /\ pc' = "head"
        /\ UNCHANGED err
     \/ /\ err' = TRUE
        /\ pc' = "failed"
        /\ UNCHANGED old
  /\ UNCHANGED <<profile, options, lineno, stmts, stmtsNil, cmd, cov, new, delta,
                 percent, report, pos, output, call, fs, pr, act, ev>>

\* headfilecov of CollectFiles; its error is returned
runDiff_CollectHead ==
  /\ pc = "head"
  /\ cmd = "runDiff"
  /\ \/ /\ new' \in {ByPackage(f) : f \in FileCovs(options)}
        /\ pc' = "loaded"
        /\ UNCHANGED err
     \/ /\ err' = TRUE
        /\ pc' = "failed"
        /\ UNCHANGED new
  /\ UNCHANGED <<profile, options, lineno, stmts, stmtsNil, cmd, cov, old, delta,
                 percent, report, pos, output, call, fs, pr, act, ev>>

\* pkgdelta := coverage.Diff(ctx, headpkgcov, basepkgcov)
runDiff_Diff ==
  /\ pc = "loaded"
  /\ cmd = "runDiff"
  /\ delta' = Diff(new, old)
  /\ pc' = "diffed"
  /\ UNCHANGED <<profile, options, lineno, stmts, stmtsNil, err, cmd, cov, old, new,
                 percent, report, pos, output, call, fs, pr, act, ev>>

\* fmt.Print of coverage.Report(pkgdelta) or coverage.ReportMD(pkgdelta)
runDiff_Report ==
  /\ pc = "diffed"
  /\ cmd = "runDiff"
  /\ \E format \in Formats : report' = Render(delta, format)
  /\ pc' = "reported"
  /\ UNCHANGED <<profile, options, lineno, stmts, stmtsNil, err, cmd, cov, old, new,
                 delta, percent, pos, output, call, fs, pr, act, ev>>

NextRunDiff ==
  \/ runDiff_LoadBase
  \/ runDiff_CollectHead
  \/ runDiff_Diff
  \/ runDiff_Report

SpecRunDiff == InitRunDiff /\ [][NextRunDiff]_vars

(***************************************************************************)
(* Lookups in the event payload.                                           *)
(***************************************************************************)
InitEvent ==
  /\ CovIdle
  /\ pc = "event"
  /\ pos = NoGhaPos
  /\ output = <<>>
  /\ call = NoCall
  /\ fs = NoFs
  /\ pr = NoPr
  /\ act = NoAct
  /\ ev \in {[NoEv EXCEPT !.event = e, !.path = p] : e \in Events, p \in EventPaths}

event_lookup ==
  /\ pc = "event"
  /\ LET r == lookup(ev.event, ev.path)
     IN ev' = [ev EXCEPT !.op = "lookup", !.v = r.v,
                         !.logged = IF r.warned THEN <<"warning">> ELSE <<>>]
  /\ pc' = "looked"
  /\ UNCHANGED <<covVars, pos, output, call, fs, pr, act>>

event_String ==
  /\ pc = "event"
  /\ LET r == ghe_String(ev.event, ev.path)
     IN ev' = [ev EXCEPT !.op = "String", !.str = r.str, !.logged = r.logged]
  /\ pc' = "looked"
  /\ UNCHANGED <<covVars, pos, output, call, fs, pr, act>>

event_Int ==
  /\ pc = "event"
  /\ LET r == ghe_Int(ev.event, ev.path)
     IN ev' = [ev EXCEPT !.op = "Int", !.int = r.int, !.logged = r.logged]
  /\ pc' = "looked"
  /\ UNCHANGED <<covVars, pos, output, call, fs, pr, act>>

NextEvent ==
  \/ event_lookup
  \/ event_String
  \/ event_Int

SpecEvent == InitEvent /\ [][NextEvent]_vars

(***************************************************************************)
(* Properties                                                              *)
(***************************************************************************)
\* every key of the StatementData is path:position
HasPositions(st) == \A k \in DOMAIN st : LastIndexByte(k.filepos, ":") >= 0

\* the (path, count, covered) entries stored in a view
Entries(v) ==
  IF v.grp = "Statement"
  THEN {Entry(k, k.filepos, k.count, covered(k, v.data[k])) : k \in DOMAIN v.data}
  ELSE {Entry(k, k, v.data[k].Count, v.data[k].Covered) : k \in DOMAIN v.data}

\* two views hold the same map from path to (Count, Covered)
SameMap(v, w) == ~v.panic /\ ~w.panic /\ v.data = w.data

\* C1: for every StatementData S of path:position keys, whatever the number
\* of segments of the paths, rolling up in stages gives the same map as
\* rolling up directly: ByPackage(ByFiles(S)) = ByPackage(S),
\* ByRoot(ByPackage(S)) = ByRoot(ByFiles(S)) = ByRoot(S) and
\* ByModule(ByPackage(S)) = ByModule(ByFiles(S)) = ByModule(S).
C1_RollupAssociative ==
  (pc = "loaded" /\ HasPositions(stmts)) =>
    LET S == StatementView(stmts)
        F == ByFiles(S)
        P == ByPackage(S)
    IN /\ SameMap(ByPackage(F), P)
       /\ SameMap(ByRoot(P), ByRoot(F))
       /\ SameMap(ByRoot(F), ByRoot(S))
       /\ SameMap(ByModule(P), ByModule(F))
       /\ SameMap(ByModule(F), ByModule(S))

\* the output of a rollup holds the sums of Count and of Covered of its input
Conserves(out, in) ==
  /\ ~out.panic
  /\ SumCount(Entries(out)) = SumCount(Entries(in))
  /\ SumCovered(Entries(out)) = SumCovered(Entries(in))

\* C2: for each rollup ByFiles, ByPackage, ByRoot, ByModule and every input
\* view, the sums of Count and of Covered over the output paths equal the
\* sums over the input entries: nothing is dropped or counted twice.
C2_RollupConserves ==
  (pc = "loaded" /\ HasPositions(stmts)) =>
    LET S == StatementView(stmts)
        F == ByFiles(S)
        P == ByPackage(F)
        R == ByRoot(F)
    IN /\ Conserves(F, S)
       /\ Conserves(ByPackage(S), S) /\ Conserves(P, F)
       /\ Conserves(ByRoot(S), S) /\ Conserves(R, F) /\ Conserves(ByRoot(P), P)
       /\ Conserves(ByModule(S), S) /\ Conserves(ByModule(F), F)
       /\ Conserves(ByModule(P), P) /\ Conserves(ByModule(R), R)

\* C3: every percentage written by Report and ReportMD (rows and total row)
\* is a finite number, and it is 0.0 when the Total it divides by is 0.
C3_PercentOfZeroTotal ==
  pc = "reported" =>
    \A i \in 1..Len(report.rows) :
      LET row == report.rows[i]
      IN /\ IsFinite(row.pct) /\ IsFinite(row.was) /\ IsFinite(row.change)
         /\ (row.hd.Total = 0 => IsZero(row.pct))
         /\ (row.bd.Total = 0 => IsZero(row.was))

Rank(grp) ==
  CASE grp = "File" -> 1 [] grp = "Package" -> 2 [] grp = "Root" -> 3
    [] grp = "Module" -> 4

Coarser(g, h) == IF Rank(g) < Rank(h) THEN h ELSE g

\* a view rolled up to a granularity that is not finer than its own
RollTo(grp, v) ==
  IF v.grp = grp THEN v
  ELSE CASE grp = "Package" -> ByPackage(v)
         [] grp = "Root"    -> ByRoot(v)
         [] grp = "Module"  -> ByModule(v)

CountAt(v, p) == IF p \in DOMAIN v.data THEN v.data[p].Count ELSE 0

CoveredAt(v, p) == IF p \in DOMAIN v.data THEN v.data[p].Covered ELSE 0

Diffed == cmd = "diff" /\ pc \in {"diffed", "reported"}

\* C4: Diff(old, new) is tagged with the coarser of the two granularities and
\* its base (head) counts for every path are the counts of old (new) rolled
\* up to that granularity; the side that is already that coarse is taken as
\* it is.
C4_DiffAtCoarser ==
  Diffed =>
    LET g == Coarser(old.grp, new.grp)
        b == RollTo(g, old)
        h == RollTo(g, new)
    IN /\ ~delta.panic
       /\ delta.grp = g
       /\ \A p \in DOMAIN delta.data \cup DOMAIN b.data \cup DOMAIN h.data :
            /\ p \in DOMAIN delta.data
            /\ delta.data[p].BaseCount = CountAt(b, p)
            /\ delta.data[p].BaseCovered = CoveredAt(b, p)
            /\ delta.data[p].HeadCount = CountAt(h, p)
            /\ delta.data[p].HeadCovered = CoveredAt(h, p)

\* C4 witness: a File view was diffed against a Root view and a path has
\* counts on both sides
C4_Witness ==
  /\ Diffed
  /\ old.grp = "File" /\ new.grp = "Root"
  /\ \E p \in DOMAIN delta.data :
       delta.data[p].BaseCount > 0 /\ delta.data[p].HeadCount > 0

\* C5: the keys of Diff(old, new) are the union of the paths of the two
\* re-aggregated views; a path of new only has base counts 0, a path of old
\* only has head counts 0, and Diff does not fail.
C5_DiffZeroFill ==
  Diffed =>
    LET g == Coarser(old.grp, new.grp)
        B == DOMAIN RollTo(g, old).data
        H == DOMAIN RollTo(g, new).data
    IN /\ ~delta.panic
       /\ DOMAIN delta.data = B \cup H
       /\ \A p \in H \ B :
            delta.data[p].BaseCount = 0 /\ delta.data[p].BaseCovered = 0
       /\ \A p \in B \ H :
            delta.data[p].HeadCount = 0 /\ delta.data[p].HeadCovered = 0

\* C5 witness: the delta has a path of the base only and a path of the head
\* only, both with statements
C5_Witness ==
  /\ Diffed
  /\ LET g == Coarser(old.grp, new.grp)
         B == DOMAIN RollTo(g, old).data
         H == DOMAIN RollTo(g, new).data
     IN /\ \E p \in H \ B : delta.data[p].HeadCount > 0
        /\ \E p \in B \ H : delta.data[p].BaseCount > 0

\* C6: Diff(A, A) has equal base and head counts for every path, and every
\* row written for it with Total > 0 has a change of exactly zero.
C6_DiffSelf ==
  (Diffed /\ old = new) =>
    /\ \A p \in DOMAIN delta.data :
         /\ delta.data[p].BaseCount = delta.data[p].HeadCount
         /\ delta.data[p].BaseCovered = delta.data[p].HeadCovered
    /\ pc = "reported" =>
         \A i \in 1..Len(report.rows) :
           report.rows[i].hd.Total > 0 => IsZero(report.rows[i].change)

\* C6 witness: a view with a partly covered path was diffed against itself
\* and the report has a row for it
C6_Witness ==
  /\ Diffed /\ old = new /\ pc = "reported"
  /\ \E p \in DOMAIN delta.data :
       delta.data[p].HeadCovered > 0 /\ delta.data[p].HeadCovered < delta.data[p].HeadCount
  /\ \E i \in 1..Len(report.rows) : report.rows[i].hd.Total > 0

\* line i of the profile is a statement line that scanStatements stores
IsStatementLine(line) ==
  /\ ~HasPrefix(line, <<"m", "o", "d", "e", ":">>)
  /\ Len(Fields(line)) = 3
  /\ ~excludes(options, Fields(line)[1])
  /\ Atoi(Fields(line)[2]).ok

\* C7: the covered flag stored for a statement is the OR of hitCount # "0"
\* over all the lines of the profile with its path:position.
C7_CoveredIsOr ==
  pc = "loaded" =>
    \A k \in DOMAIN stmts :
      stmts[k] = (\E i \in 1..Len(profile) :
                    /\ IsStatementLine(profile[i])
                    /\ Fields(profile[i])[1] = k.filepos
                    /\ Fields(profile[i])[3] # <<"0">>)

\* C8: in the StatementData returned by ReadProfile each path:position
\* occurs in at most one entry.
C8_PositionOnce ==
  pc = "loaded" =>
    \A k1, k2 \in DOMAIN stmts : k1.filepos = k2.filepos => k1 = k2

\* C9: every count pair of a view built from a successfully parsed profile
\* has 0 <= Covered <= Total, and no numStatements that is not a
\* non-negative integer reaches the aggregation.
C9_CountsInRange ==
  /\ pc = "loaded" => \A k \in DOMAIN stmts : k.count >= 0
  /\ pc \in {"grouped", "reported"} =>
       \A p \in DOMAIN cov.data :
         0 <= cov.data[p].Covered /\ cov.data[p].Covered <= cov.data[p].Count

\* a line that is not a mode: header, has exactly 3 fields, is not excluded
\* and whose numStatements is not an integer
IsFatalLine(line) ==
  /\ ~HasPrefix(line, <<"m", "o", "d", "e", ":">>)
  /\ Len(Fields(line)) = 3
  /\ ~excludes(options, Fields(line)[1])
  /\ ~Atoi(Fields(line)[2]).ok

SegmentMatch(o, path) ==
  /\ ~o.isNil
  /\ \E i \in 1..Len(o.Excludes) :
       \E j \in 1..Len(Split(path, "/")) : Split(path, "/")[j] = o.Excludes[i]

\* C11: a line that scanStatements consumed past the field count is excluded
\* exactly when some '/'-delimited segment of its path, bounded by '/' or by
\* the start or the end of the string, equals a configured token
C11_ExcludedIffSegment ==
  \A i \in 1..lineno :
    LET f == Fields(profile[i])
        r == scanLine(EmptyMap, profile[i], options)
    IN r.branch \notin {"mode", "invalid"}
         => ((r.branch = "excluded") <=> SegmentMatch(options, f[1]))

\* C12: the path derivations are total: for every key of the StatementData
\* that ReadProfile returned, stmt.loc, stmt.file, stmt.pkg and stmt.mod
\* return normally, and so do ByFiles, ByPackage, ByRoot and ByModule
C12_DerivationsTotal ==
  pc = "loaded" =>
    /\ \A k \in DOMAIN stmts :
         /\ loc(k).path # Panic /\ loc(k).pos # Panic
         /\ file(k) # Panic
         /\ pkg(k) # Panic
         /\ mod(k) # Panic
    /\ \A by \in Groupings : ~groupShow(by, stmts).panic

\* the view holding only the entry of key k of v
Only(v, k) == [v EXCEPT !.data = [x \in {k} |-> v.data[x]]]

\* C13: for every statement, file or package path the module path that
\* EachModule passes equals the key under which ByModule accumulates it
C13_ModuleIsByModuleKey ==
  pc = "loaded" =>
    LET S == StatementView(stmts)
        F == ByFiles(S)
        P == ByPackage(F)
    IN \A v \in {w \in {S, F, P} : ~w.panic} :
         \A e \in EachModule(v) :
           LET bm == ByModule(Only(v, e.k))
           IN ~bm.panic => DOMAIN bm.data = {e.path}

\* C14: in the plain-text report of a diff view a row (the total row
\* included) has the "(was ...)" form exactly when its base Total is above
\* zero, and a row whose base Total is zero has the delta-only form
C14_WasIffBaseTotal ==
  (pc = "reported" /\ cmd = "diff" /\ report.format = "ascii") =>
    \A i \in DOMAIN report.rows :
      LET r == report.rows[i]
      IN /\ (r.form = "was") <=> (r.bd.Total > 0)
         /\ r.bd.Total = 0 => r.form = "delta"

\* the view that the report was rendered from
Reported == IF cmd = "diff" THEN delta ELSE cov

RECURSIVE SumRows(_, _, _, _)
\* the sum of field fld of side (hd or bd) over rows 1..n
SumRows(rows, side, fld, n) ==
  IF n = 0 THEN 0 ELSE rows[n][side][fld] + SumRows(rows, side, fld, n - 1)

\* C15: Report and ReportMD append a total row exactly when the view has
\* more than one path; the total row is the last row and its head and base
\* Covered and Total are the sums over all the other rows
C15_TotalRow ==
  pc = "reported" =>
    LET rows == report.rows
        n    == Len(rows)
        np   == Cardinality(DOMAIN Reported.data)
    IN /\ (\E i \in 1..n : rows[i].isTotal) <=> np > 1
       /\ \A i \in 1..n : rows[i].isTotal => i = n
       /\ n = IF np > 1 THEN np + 1 ELSE np
       /\ \A i \in 1..n : rows[i].isTotal =>
            /\ rows[i].hd.Total = SumRows(rows, "hd", "Total", n - 1)
            /\ rows[i].hd.Covered = SumRows(rows, "hd", "Covered", n - 1)
            /\ rows[i].bd.Total = SumRows(rows, "bd", "Total", n - 1)
            /\ rows[i].bd.Covered = SumRows(rows, "bd", "Covered", n - 1)

C15_Witness ==
  /\ pc = "reported"
  /\ Cardinality(DOMAIN Reported.data) > 1
  /\ report.rows[Len(report.rows)].isTotal
  /\ report.rows[Len(report.rows)].hd.Total > 1
  /\ report.rows[Len(report.rows)].bd.Total > 1
  /\ report.rows[Len(report.rows)].bd.Covered > 0

\* the label of a row carries the "/..." descendants marker
HasMarker(row) ==
  \/ report.format = "ascii" /\ HasSuffix(row.label, <<"/", ".", ".", ".", ":">>)
  \/ report.format = "markdown" /\ HasSuffix(row.label, <<"/", ".", ".", ".">>)

\* C16: in the report of a Package, Root or Module view every row whose
\* path is not "." is labelled with the "/..." suffix, and no row of a
\* File view is
C16_AggregateSuffix ==
  pc = "reported" =>
    LET pkgs == Paths(Reported)
    IN \A i \in 1..Len(pkgs) :
         /\ (Reported.grp \in {"Package", "Root", "Module"} /\ pkgs[i] # <<".">>)
              => HasMarker(report.rows[i])
         /\ Reported.grp = "File" => ~HasMarker(report.rows[i])

\* C17: ReportMD writes the Change, (Covered) and (Statements) header
\* columns exactly when some path of the view has a base Total above zero,
\* and a row carries the three change cells exactly when its own base Total
\* is above zero, so no row has change cells under a header without them
C17_ChangeColumns ==
  (pc = "reported" /\ cmd = "diff" /\ report.format = "markdown") =>
    /\ report.change <=> \E p \in DOMAIN delta.data : delta.data[p].BaseCount > 0
    /\ \A i \in DOMAIN report.rows :
         (report.rows[i].form = "change") <=> (report.rows[i].bd.Total > 0)
    /\ \A i \in DOMAIN report.rows :
         report.rows[i].form = "change" => report.change

\* Paths() of view c lists each stored path once, in ascending order, and
\* Detail and BaseDetail of each listed path give the stored counts
PathsFaithful(c) ==
  LET ps == Paths(c)
  IN /\ Len(ps) = Cardinality(DOMAIN c.data)
     /\ {ps[i] : i \in 1..Len(ps)} = DOMAIN c.data
     /\ \A i \in 1..(Len(ps) - 1) : StrLeq(ps[i], ps[i + 1]) /\ ps[i] # ps[i + 1]
     /\ \A i \in 1..Len(ps) :
          ps[i] \in DOMAIN c.data =>
            IF c.delta
            THEN /\ Detail(c, ps[i]).Total = c.data[ps[i]].HeadCount
                 /\ Detail(c, ps[i]).Covered = c.data[ps[i]].HeadCovered
                 /\ BaseDetail(c, ps[i]).Total = c.data[ps[i]].BaseCount
                 /\ BaseDetail(c, ps[i]).Covered = c.data[ps[i]].BaseCovered
            ELSE /\ Detail(c, ps[i]).Total = c.data[ps[i]].Count
                 /\ Detail(c, ps[i]).Covered = c.data[ps[i]].Covered

\* C18: for the FileData or PathData handed to Diff and for the PathDelta
\* it returns, Paths() lists each stored path exactly once in ascending
\* order and Detail / BaseDetail of each listed path give its stored counts
C18_PathsFaithful ==
  pc \in {"diffed", "reported"} =>
    /\ PathsFaithful(old)
    /\ PathsFaithful(new)
    /\ PathsFaithful(delta)

\* number of occurrences of the character c in s
Count(s, c) == Cardinality({i \in 1..Len(s) : s[i] = c})

\* every '%' of s starts one of the escapes %25, %0A, %0D
WellEscaped(s) ==
  \A i \in 1..Len(s) :
    s[i] = "%" =>
      /\ i + 2 <= Len(s)
      /\ SubSeq(s, i + 1, i + 2) \in {<<"2", "5">>, <<"0", "A">>, <<"0", "D">>}

\* the text of which s is the escaped form
RECURSIVE Unescape(_)
Unescape(s) ==
  IF s = <<>> THEN <<>>
  ELSE IF s[1] = "%" /\ Len(s) >= 3
  THEN (CASE SubSeq(s, 2, 3) = <<"2", "5">> -> <<"%">>
          [] SubSeq(s, 2, 3) = <<"0", "A">> -> <<"\n">>
          [] SubSeq(s, 2, 3) = <<"0", "D">> -> <<"\r">>
          [] OTHER -> SubSeq(s, 1, 3)) \o Unescape(SubSeq(s, 4, Len(s)))
  ELSE <<s[1]>> \o Unescape(Tail(s))

\* C19: a logging call writes one line per workflow command: the text the
\* caller supplied (message, title, file) reaches the log with every '%',
\* LF and CR written as %25, %0A, %0D, so the only line breaks written are
\* the ones that end the commands, and the escaping can be undone
C19_OneLinePerCommand ==
  call.cmds > 0 =>
    /\ Count(output, "\n") = call.cmds
    /\ output[Len(output)] = "\n"
    /\ Count(output, "\r") = 0
    /\ WellEscaped(output)
    /\ Unescape(ghaEscaper(call.text)) = call.text

\* the calls that emit an annotation from the ghaPos
PosEmits == {"pos.Notice", "pos.Noticef", "pos.Error", "pos.Errorf",
             "pos.Warning", "pos.Warningf"}

\* the annotation written lists the property
Listed(key) == Contains(output, key)

KeyFile == <<" ", "f", "i", "l", "e", "=">>

KeyTitle == <<",", "t", "i", "t", "l", "e", "=">>

KeyLine == <<",", "l", "i", "n", "e", "=">>

KeyEndLine == <<",", "e", "n", "d", "L", "i", "n", "e", "=">>

KeyCol == <<",", "c", "o", "l", "=">>

KeyEndColumn == <<",", "e", "n", "d", "C", "o", "l", "u", "m", "n", "=">>

\* C20 as stated: an annotation emitted from a ghaPos lists the file, the
\* title if it is set, line only if line # 0, endLine only if line # 0 and
\* lineEnd # 0, col only if line # 0 and col # 0, endColumn only if col is
\* listed and colEnd # 0
C20_AnnotationFields ==
  call.op \in PosEmits =>
    /\ Listed(KeyFile)
    /\ pos.title # <<>> => Listed(KeyTitle)
    /\ Listed(KeyLine) => pos.line # 0
    /\ Listed(KeyEndLine) => (pos.line # 0 /\ pos.lineEnd # 0)
    /\ Listed(KeyCol) => (pos.line # 0 /\ pos.col # 0)
    /\ Listed(KeyEndColumn) => (Listed(KeyCol) /\ pos.colEnd # 0)

\* what an annotation emitted from the ghaPos lists: nothing when the file
\* is empty, else the file, and each further property with its value
\* exactly under the condition of C20
C20_Listing ==
  call.op \in PosEmits =>
    IF pos.file = <<>>
    THEN ~(\E key \in {KeyFile, KeyTitle, KeyLine, KeyEndLine, KeyCol, KeyEndColumn} :
             Listed(key))
    ELSE /\ Listed(KeyFile \o pos.file)
         /\ Listed(KeyTitle) <=> pos.title # <<>>
         /\ Listed(KeyTitle) => Listed(KeyTitle \o ghaEscaper(pos.title))
         /\ Listed(KeyLine) <=> pos.line # 0
         /\ Listed(KeyLine) => Listed(KeyLine \o Itoa(pos.line))
         /\ Listed(KeyEndLine) <=> (pos.line # 0 /\ pos.lineEnd # 0)
         /\ Listed(KeyEndLine) => Listed(KeyEndLine \o Itoa(pos.lineEnd))
         /\ Listed(KeyCol) <=> (pos.line # 0 /\ pos.col # 0)
         /\ Listed(KeyCol) => Listed(KeyCol \o Itoa(pos.col))
         /\ Listed(KeyEndColumn) <=> (Listed(KeyCol) /\ pos.colEnd # 0)
         /\ Listed(KeyEndColumn) => Listed(KeyEndColumn \o Itoa(pos.colEnd))

\* the effect of one call on the fields of the ghaPos: Line(n) clears the
\* end line, Col(n) the end column, every other field keeps its value, and
\* an emission changes no field
C20_Setters ==
  /\ call'.op = "Title" => pos' = [pos EXCEPT !.title = call'.text]
  /\ call'.op = "Line" =>
       pos' = [pos EXCEPT !.line = call'.nums[1], !.lineEnd = 0]
  /\ call'.op = "Lines" =>
       pos' = [pos EXCEPT !.line = call'.nums[1], !.lineEnd = call'.nums[2]]
  /\ call'.op = "Col" =>
       pos' = [pos EXCEPT !.col = call'.nums[1], !.colEnd = 0]
  /\ call'.op = "Cols" =>
       pos' = [pos EXCEPT !.col = call'.nums[1], !.colEnd = call'.nums[2]]
  /\ call'.cmds > 0 => pos' = pos

\* C20, for a ghaPos of any file: after any sequence of Title, Line, Lines,
\* Col and Cols calls an emitted annotation lists nothing when the file is
\* empty and otherwise the file, the title iff set, line iff line # 0,
\* endLine iff line # 0 and lineEnd # 0, col iff line # 0 and col # 0,
\* endColumn iff col is listed and colEnd # 0; Line(n) clears the end line,
\* Col(n) the end column and every other field keeps its value
C20_AnnotationFieldsOfFile == []C20_Listing /\ [][C20_Setters]_vars

C20_Witness ==
  /\ call.op = "pos.Notice"
  /\ pos.file # <<>>
  /\ pos.title # <<>>
  /\ pos.line # 0 /\ pos.lineEnd = 0
  /\ pos.col # 0 /\ pos.colEnd # 0
  /\ Listed(KeyEndColumn)
  /\ ~Listed(KeyEndLine)

(***************************************************************************)
(* C21: the files of SetOutput, SetEnv and AddPath                         *)
(***************************************************************************)
\* the entries of the calls of one kind, in call order: of every call, or of
\* the calls whose file was opened
RECURSIVE EntriesOf(_, _, _)
EntriesOf(calls, kind, every) ==
  IF calls = <<>> THEN <<>>
  ELSE LET c == Head(calls)
       IN (IF c.kind = kind /\ (every \/ c.err = "nil")
           THEN EntryOf(c.kind, c.name, c.value) ELSE <<>>)
          \o EntriesOf(Tail(calls), kind, every)

\* the line logged for an empty path
NotAvailableLine(kind) ==
  CASE kind = "SetOutput" -> <<":", ":", "e", "r", "r", "o", "r", ":", ":", "G", "I", "T", "H", "U", "B", "_", "O", "U", "T", "P", "U", "T", " ", "n", "o", "t", " ", "a", "v", "a", "i", "l", "a", "b", "l", "e", "\n">>
    [] kind = "SetEnv"    -> <<":", ":", "e", "r", "r", "o", "r", ":", ":", "G", "I", "T", "H", "U", "B", "_", "E", "N", "V", " ", "n", "o", "t", " ", "a", "v", "a", "i", "l", "a", "b", "l", "e", "\n">>
    [] kind = "AddPath"   -> <<":", ":", "e", "r", "r", "o", "r", ":", ":", "G", "I", "T", "H", "U", "B", "_", "P", "A", "T", "H", " ", "n", "o", "t", " ", "a", "v", "a", "i", "l", "a", "b", "l", "e", "\n">>

\* the last call made
LastCall == fs.calls[Len(fs.calls)]

\* an empty path leaves no file and logs the one line
EmptyPathCase ==
  /\ \A k \in FileKinds : fs.path[k] = <<>> => fs.file[k] = NoFile
  /\ fs.calls # <<>> /\ fs.path[LastCall.kind] = <<>>
       => output = NotAvailableLine(LastCall.kind)

TaggedIn(cs) == {c \in cs : c.tagged}

\* the last run made the API call with the success
Called(name, ok) ==
  \E i \in 1..Len(pr.last.calls) : pr.last.calls[i] = ApiCall(name, ok)

\* C27: in replace mode the new comment is created before the old one is
\* deleted, the old one is deleted only after a successful creation, and a pull
\* request with a tagged comment before the run has one after it
C27_ReplaceKeepsComment ==
  (pc = "comment" /\ pr.last.mode = "replace") =>
    /\ \A j \in 1..Len(pr.last.calls) :
         pr.last.calls[j].api = "delete" =>
           \E i \in 1..(j - 1) : pr.last.calls[i] = ApiCall("post", TRUE)
    /\ TaggedIn(pr.last.before) # {} => TaggedIn(pr.comments) # {}

\* C27 witness: a replace run found a tagged comment, created the new one and
\* deleted the old one
C27_Witness ==
  /\ pc = "comment" /\ pr.last.mode = "replace"
  /\ Called("delete", TRUE)
  /\ TaggedIn(pr.last.before) # {}
  /\ \E c \in TaggedIn(pr.comments) : c.body = pr.last.run /\ c.id = pr.last.id
  /\ TaggedIn(pr.last.before) \cap pr.comments = {}

\* C28: a run in an enabled mode whose API calls all succeed leaves a tagged
\* comment with the new body and returns its non-zero id; an update run that
\* finds no tagged comment creates one
C28_SuccessLeavesComment ==
  (pc = "comment" /\ pr.last.mode \in {"append", "replace", "update"}) =>
    LET carried == /\ pr.last.id # 0
                   /\ \E c \in TaggedIn(pr.comments) :
                        c.id = pr.last.id /\ c.body = pr.last.run
    IN /\ (\A i \in 1..Len(pr.last.calls) : pr.last.calls[i].ok) => carried
       /\ (/\ pr.last.mode = "update"
           /\ Called("list", TRUE)
           /\ TaggedIn(pr.last.before) = {}) => carried

(***************************************************************************)
(* C29: replace-mode runs that interleave                                  *)
(***************************************************************************)
\* every run has finished and no call on an existing comment has failed
AllRunsSucceeded ==
  \A i \in 1..NumRuns : pr.runs[i].at = "done" /\ ~pr.runs[i].failed

\* C29: from at most one tagged comment, once every replace-mode run has
\* finished with its calls succeeding, the pull request holds exactly one tagged
\* comment, however the find, post and delete calls interleaved
C29_OneTaggedComment ==
  (pc = "race" /\ AllRunsSucceeded) =>
    Cardinality({c \in pr.comments : c.tagged}) = 1

(***************************************************************************)
(* C22 .. C25: the run of coverpkg-gha                                     *)
(***************************************************************************)
\* the run made the step
Did(name) == \E i \in 1..Len(act.ran.steps) : act.ran.steps[i].step = name

\* the run made the step with the success
DidWith(name, ok) == \E i \in 1..Len(act.ran.steps) : act.ran.steps[i] = Step(name, ok)

\* the run set the output to the value
OutputIs(name, value) ==
  \E i \in 1..Len(act.ran.outputs) : act.ran.outputs[i] = Output(name, value)

\* the run set the output
OutputSet(name) == \E i \in 1..Len(act.ran.outputs) : act.ran.outputs[i].name = name

\* C22: push, workflow_dispatch and repository_dispatch select the push
\* handling, pull_request and pull_request_target the pull-request handling;
\* with every other name the run logs a debug message, collects, stores, pushes
\* and comments nothing, and succeeds
C22_Dispatch ==
  pc = "exit" =>
    IF act.name \in {"push", "workflow_dispatch", "repository_dispatch"}
    THEN act.command = "push"
    ELSE IF act.name \in {"pull_request", "pull_request_target"}
    THEN act.command = "pull_request"
    ELSE /\ act.ran.debug # <<>>
         /\ act.ran.steps = <<>>
         /\ act.ran.result = "ok"

\* the names of the notes steps of the run, in their order
RECURSIVE NotesSteps(_)
NotesSteps(steps) ==
  IF steps = <<>> THEN <<>>
  ELSE (IF Head(steps).step \in {"Fetch", "EnsureUser", "Store", "Push"}
        THEN <<Head(steps).step>> ELSE <<>>) \o NotesSteps(Tail(steps))

IsPrefix(a, b) == Len(a) <= Len(b) /\ SubSeq(b, 1, Len(a)) = a

\* C23: runPush sets pushed-coverage to 'true' iff the head coverage was stored
\* and the push succeeded; the notes steps run in the order Fetch (unless
\* nopull), EnsureUser, Store, Push; a failed EnsureUser or Store ends the run
\* before Push; a failed Fetch or Push only warns; with nopush nothing is
\* fetched, stored or pushed
C23_PushedCoverage ==
  (pc = "exit" /\ act.command = "push") =>
    /\ OutputIs("pushed-coverage", "true")
         <=> (DidWith("Store", TRUE) /\ DidWith("Push", TRUE))
    /\ \A i \in 1..Len(act.ran.outputs) :
         act.ran.outputs[i].name = "pushed-coverage" => act.ran.outputs[i].value = "true"
    /\ IsPrefix(NotesSteps(act.ran.steps),
                (IF act.cfg.nopull THEN <<>> ELSE <<"Fetch">>)
                \o <<"EnsureUser", "Store", "Push">>)
    /\ (DidWith("EnsureUser", FALSE) \/ DidWith("Store", FALSE))
         => (~Did("Push") /\ act.ran.result = "error")
    /\ act.ran.result = "error"
         <=> (\/ ~act.cfg.eventPath
              \/ DidWith("CollectFiles", FALSE)
              \/ DidWith("EnsureUser", FALSE)
              \/ DidWith("Store", FALSE))
    /\ DidWith("Fetch", FALSE) => Len(act.ran.warnings) > 0
    /\ DidWith("Push", FALSE) => Len(act.ran.warnings) > 0 /\ act.ran.result = "ok"
    /\ act.cfg.nopush => NotesSteps(act.ran.steps) = <<>>

\* C23 witness: the fetch failed, the coverage was stored and pushed
C23_Witness ==
  /\ pc = "exit" /\ act.command = "push"
  /\ DidWith("Fetch", FALSE)
  /\ DidWith("Store", TRUE) /\ DidWith("Push", TRUE)
  /\ OutputIs("pushed-coverage", "true")
  /\ act.ran.result = "ok"

C25_CommentOutputs ==
  (pc = "exit" /\ act.command = "pull_request" /\ Did("doComment")) =>
    /\ act.ran.comment.err = "api" =>
         OutputIs("comment-failed", "true") /\ act.ran.result = "ok"
    /\ (act.ran.comment.err = "nil" /\ act.ran.comment.id # 0) =>
         /\ OutputIs("comment-id", act.ran.comment.id)
         /\ ~OutputSet("comment-failed")
    /\ act.ran.comment.err = "net" => act.ran.result = "error"

(***************************************************************************)
(* C26: the callers of Diff                                                *)
(***************************************************************************)
\* C26: in the delta of runDiff the head counts of every path are those of
\* the head collected and the base counts those of the base loaded
C26_BaseIsOld ==
  (cmd = "runDiff" /\ pc \in {"diffed", "reported"}) =>
    /\ ~delta.panic
    /\ \A p \in DOMAIN delta.data :
         /\ delta.data[p].HeadCount = CountAt(new, p)
         /\ delta.data[p].HeadCovered = CoveredAt(new, p)
         /\ delta.data[p].BaseCount = CountAt(old, p)
         /\ delta.data[p].BaseCovered = CoveredAt(old, p)

(***************************************************************************)
(* C30: lookups of paths that do not exist                                 *)
(***************************************************************************)
\* the value at the segments from src: every segment is a key of the object
\* reached or an index in the range of the array reached
RECURSIVE Resolve(_, _)
Resolve(src, segs) ==
  IF segs = <<>> THEN [ok |-> TRUE, v |-> src]
  ELSE LET p == Head(segs)
       IN IF src.t = "map" /\ p \in DOMAIN src.kids
          THEN Resolve(src.kids[p], Tail(segs))
          ELSE IF /\ src.t = "slice"
                  /\ Atoi(p).ok
                  /\ Atoi(p).val >= 0
                  /\ Atoi(p).val < Len(src.kids)
          THEN Resolve(src.kids[Atoi(p).val + 1], Tail(segs))
          ELSE [ok |-> FALSE, v |-> Nil]

\* C30: lookup returns the value at the path when every segment resolves and
\* nil when one does not, a scalar reached with segments left included; String
\* returns "" and Int returns 0 for a path that does not exist
C30_LookupNilUnlessResolved ==
  pc = "looked" =>
    LET r == Resolve(ev.event, Split(ev.path, "."))
    IN /\ ev.op = "lookup" => ev.v = r.v
       /\ (ev.op = "String" /\ ~r.ok) => ev.str = <<>>
       /\ (ev.op = "Int" /\ ~r.ok) => ev.int = 0
====
